---- MODULE Spec2Model ----
(***************************************************************************)
(* Task-management backend: the auth router (register, login, me), the     *)
(* authenticate middleware and the tasks router over a PostgreSQL store.   *)
(*                                                                         *)
(* JavaScript values are tagged records: Undefined, Null, Str(chars).      *)
(* The characters of a string are a tuple of pieces; a piece is either one *)
(* whitespace character (" ") or a run of non-whitespace characters, so    *)
(* Str(<<" ", "done", " ">>) is the text " done ".                         *)
(* Store identifiers (uuid) are positive integers in generation order;     *)
(* NotAUuid is a path parameter that is not uuid text.                     *)
(***************************************************************************)
EXTENDS Integers, Sequences, FiniteSets, TLC

----------------------------------------------------------------------------
(* Bounds of the model *)

MaxPending == 2
MaxTokens == 2
MaxNow == 8
MaxTasks == 2
MaxDbNow == 1
MaxCalls == 2
MaxSerial == 2

----------------------------------------------------------------------------
(* JavaScript values *)

Undefined == [type |-> "undefined"]
Null == [type |-> "null"]
Str(s) == [type |-> "string", chars |-> s]

IsString(v) == v.type = "string"

\* JavaScript truthiness of undefined | null | string.
Truthy(v) == IsString(v) /\ v.chars # <<>>

IsWhitespace(c) == c = " "

RECURSIVE TrimStart(_)
TrimStart(s) ==
  IF s = <<>> THEN s
  ELSE IF IsWhitespace(Head(s)) THEN TrimStart(Tail(s)) ELSE s

RECURSIVE TrimEnd(_)
TrimEnd(s) ==
  IF s = <<>> THEN s
  ELSE IF IsWhitespace(s[Len(s)]) THEN TrimEnd(SubSeq(s, 1, Len(s) - 1)) ELSE s

\* String.prototype.trim
Trim(v) == Str(TrimEnd(TrimStart(v.chars)))

\* v?.trim() || null
TrimOrNull(v) == IF IsString(v) /\ Truthy(Trim(v)) THEN Trim(v) ELSE Null

----------------------------------------------------------------------------
(* Responses *)

Response(st, b) == [status |-> st, body |-> b]
NoResponse == Response(0, [none |-> TRUE])
ErrorBody(msg) == [error |-> msg]

\* The terminal error handler of the app: every error passed to next(err).
AppErrorHandler(errMessage) == Response(500, [message |-> errMessage])

----------------------------------------------------------------------------
(* bcrypt *)

SALT_ROUNDS == 10

BcryptHash(password, rounds) == [alg |-> "bcrypt", rounds |-> rounds, of |-> password.chars]
BcryptCompare(password, hash) == hash.of = password.chars

----------------------------------------------------------------------------
(* jsonwebtoken *)

TokenTTL == 7
NoNbf == -1
ServerSecret == Str(<<"k">>)
OtherSecret == Str(<<"x">>)

\* jwt.sign(payload, secret, {expiresIn: '7d'}) at time t (days).
JwtSign(payload, secret, t) ==
  [kind |-> "jwt", userId |-> payload.userId, email |-> payload.email,
   iat |-> t, nbf |-> NoNbf, exp |-> t + TokenTTL, sig |-> secret]

EmptyToken == [kind |-> "empty", userId |-> 0, email |-> Str(<<>>),
               iat |-> 0, nbf |-> NoNbf, exp |-> 0, sig |-> Str(<<>>)]
GarbageToken == [EmptyToken EXCEPT !.kind = "garbage"]

JwtOk(tok) == [name |-> "", message |-> "", date |-> 0, decoded |-> [userId |-> tok.userId, email |-> tok.email]]
JwtErr(n, msg, d) == [name |-> n, message |-> msg, date |-> d, decoded |-> [userId |-> 0, email |-> Str(<<>>)]]

\* Variant: a token is still valid at the instant of its exp claim.
JwtVerify_ExpiresAfter(tok, secret, t) ==
  IF tok.kind # "jwt" THEN JwtErr("JsonWebTokenError", "jwt malformed", 0)
  ELSE IF tok.sig # secret THEN JwtErr("JsonWebTokenError", "invalid signature", 0)
  ELSE IF tok.nbf # NoNbf /\ tok.nbf > t THEN JwtErr("NotBeforeError", "jwt not active", tok.nbf)
  ELSE IF t > tok.exp THEN JwtErr("TokenExpiredError", "jwt expired", tok.exp)
  ELSE JwtOk(tok)

\* jwt.verify(token, secret, callback): the (err, decoded) the callback gets.
JwtVerify(tok, secret, t) ==
  IF tok.kind # "jwt" THEN JwtErr("JsonWebTokenError", "jwt malformed", 0)
  ELSE IF tok.sig # secret THEN JwtErr("JsonWebTokenError", "invalid signature", 0)
  ELSE IF tok.nbf # NoNbf /\ tok.nbf > t THEN JwtErr("NotBeforeError", "jwt not active", tok.nbf)
  ELSE IF t >= tok.exp THEN JwtErr("TokenExpiredError", "jwt expired", tok.exp)
  ELSE JwtOk(tok)

----------------------------------------------------------------------------
(* Authorization header and the authenticate middleware *)

NoHeader == [present |-> FALSE, scheme |-> "", token |-> EmptyToken]
Header(scheme, tok) == [present |-> TRUE, scheme |-> scheme, token |-> tok]
Bearer(tok) == Header("Bearer ", tok)

NoUser == [userId |-> 0, email |-> Str(<<>>)]

AuthOutcome(n, r, u) == [next |-> n, res |-> r, user |-> u]

\* Variant: the response of an invalid token is sent without the return, so
\* next() is called after it.
authenticate_NextAfterInvalid(h, secret, t) ==
  LET token == IF h.present /\ h.scheme = "Bearer " THEN h.token ELSE EmptyToken IN
  IF token.kind = "empty"
  THEN AuthOutcome(0, Response(401, ErrorBody("No token provided")), NoUser)
  ELSE IF ~Truthy(secret)
  THEN AuthOutcome(0, Response(500, ErrorBody("Server misconfiguration")), NoUser)
  ELSE LET v == JwtVerify(token, secret, t) IN
       IF v.name = "TokenExpiredError"
       THEN AuthOutcome(0, Response(401, [error |-> "Token expired", expiredAt |-> v.date,
                                          code |-> "TOKEN_EXPIRED"]), NoUser)
       ELSE IF v.name = "NotBeforeError"
       THEN AuthOutcome(0, Response(401, [error |-> "Token not yet valid", validFrom |-> v.date,
                                          code |-> "TOKEN_NOT_ACTIVE"]), NoUser)
       ELSE IF v.name # ""
       THEN AuthOutcome(1, Response(401, [error |-> "Invalid token", message |-> v.message,
                                          code |-> "TOKEN_INVALID"]),
                        [userId |-> token.userId, email |-> token.email])
       ELSE AuthOutcome(1, NoResponse, [userId |-> v.decoded.userId, email |-> v.decoded.email])

\* Variant: no branch for TokenExpiredError, which falls to the invalid token.
authenticate_ExpiredAsInvalid(h, secret, t) ==
  LET token == IF h.present /\ h.scheme = "Bearer " THEN h.token ELSE EmptyToken IN
  IF token.kind = "empty"
  THEN AuthOutcome(0, Response(401, ErrorBody("No token provided")), NoUser)
  ELSE IF ~Truthy(secret)
  THEN AuthOutcome(0, Response(500, ErrorBody("Server misconfiguration")), NoUser)
  ELSE LET v == JwtVerify(token, secret, t) IN
       IF v.name = "NotBeforeError"
       THEN AuthOutcome(0, Response(401, [error |-> "Token not yet valid", validFrom |-> v.date,
                                          code |-> "TOKEN_NOT_ACTIVE"]), NoUser)
       ELSE IF v.name # ""
       THEN AuthOutcome(0, Response(401, [error |-> "Invalid token", message |-> v.message,
                                          code |-> "TOKEN_INVALID"]), NoUser)
       ELSE AuthOutcome(1, NoResponse, [userId |-> v.decoded.userId, email |-> v.decoded.email])

\* authHeader?.startsWith('Bearer ') ? authHeader.slice(7) : undefined
ExtractToken(h) ==
  IF h.present /\ h.scheme = "Bearer " THEN h.token ELSE EmptyToken

authenticate(h, secret, t) ==
  LET token == ExtractToken(h) IN
  IF token.kind = "empty"
  THEN AuthOutcome(0, Response(401, ErrorBody("No token provided")), NoUser)
  ELSE IF ~Truthy(secret)
  THEN AuthOutcome(0, Response(500, ErrorBody("Server misconfiguration")), NoUser)
  ELSE LET v == JwtVerify(token, secret, t) IN
       IF v.name = "TokenExpiredError"
       THEN AuthOutcome(0, Response(401, [error |-> "Token expired", expiredAt |-> v.date,
                                          code |-> "TOKEN_EXPIRED"]), NoUser)
       ELSE IF v.name = "NotBeforeError"
       THEN AuthOutcome(0, Response(401, [error |-> "Token not yet valid", validFrom |-> v.date,
                                          code |-> "TOKEN_NOT_ACTIVE"]), NoUser)
       ELSE IF v.name # ""
       THEN AuthOutcome(0, Response(401, [error |-> "Invalid token", message |-> v.message,
                                          code |-> "TOKEN_INVALID"]), NoUser)
       ELSE AuthOutcome(1, NoResponse, [userId |-> v.decoded.userId, email |-> v.decoded.email])

----------------------------------------------------------------------------
(* Numbers in query strings *)

Digits == {"0", "1", "2", "3", "4", "5", "6", "7", "8", "9"}

DigitValue(c) ==
  CASE c = "0" -> 0 [] c = "1" -> 1 [] c = "2" -> 2 [] c = "3" -> 3 [] c = "4" -> 4
    [] c = "5" -> 5 [] c = "6" -> 6 [] c = "7" -> 7 [] c = "8" -> 8 [] c = "9" -> 9

NaN == [nan |-> TRUE, value |-> 0]
Num(n) == [nan |-> FALSE, value |-> n]

\* String(v) for v: undefined | string
StringOf(v) == IF IsString(v) THEN v ELSE Str(<<"undefined">>)

RECURSIVE ParseDigits(_, _, _)
ParseDigits(s, acc, seen) ==
  IF s = <<>> \/ Head(s) \notin Digits
  THEN IF seen = 0 THEN NaN ELSE Num(acc)
  ELSE ParseDigits(Tail(s), acc * 10 + DigitValue(Head(s)), seen + 1)

\* parseInt(String(v), 10): leading whitespace, a sign, then the longest run of
\* digits (written one digit per piece); NaN when there is none.
ParseInt(v) ==
  LET s == TrimStart(StringOf(v).chars)
      signed == s # <<>> /\ Head(s) \in {"-", "+"}
      r == ParseDigits(IF signed THEN Tail(s) ELSE s, 0, 0)
  IN IF r.nan THEN NaN
     ELSE IF signed /\ Head(s) = "-" THEN Num(0 - r.value) ELSE r

\* n || d for a number n: NaN and 0 are falsy.
NumberOr(n, d) == IF n.nan \/ n.value = 0 THEN d ELSE n.value

Max(a, b) == IF a >= b THEN a ELSE b
Min(a, b) == IF a <= b THEN a ELSE b

----------------------------------------------------------------------------
(* Table tasks *)

NotAUuid == 0
IsUuid(id) == id # NotAUuid

STATUSES == {Str(<<"todo">>), Str(<<"in_progress">>), Str(<<"done">>)}
PRIORITIES == {Str(<<"low">>), Str(<<"medium">>), Str(<<"high">>)}

TaskRow(i, u, ti, de, st, pr, du, c, up) ==
  [id |-> i, user_id |-> u, title |-> ti, description |-> de, status |-> st,
   priority |-> pr, due_date |-> du, created_at |-> c, updated_at |-> up]

\* What pool.query resolves to, or the error it rejects with (error # "").
QueryResult(rows, ts) == [error |-> "", rows |-> rows, tasks |-> ts]
QueryError(msg, ts) == [error |-> msg, rows |-> {}, tasks |-> ts]

\* NOT NULL and CHECK constraints of table tasks on a row.
RowConstraintError(row) ==
  IF row.title = Null THEN "null value in column title violates not-null constraint"
  ELSE IF row.status \notin STATUSES THEN "violates check constraint tasks_status_check"
  ELSE IF row.priority \notin PRIORITIES THEN "violates check constraint tasks_priority_check"
  ELSE ""

\* INSERT INTO tasks (user_id, title, description, status, priority, due_date)
\* VALUES (...) RETURNING *: id, created_at and updated_at take their defaults.
InsertTask(ts, us, seq, uid, ti, de, st, pr, du, t) ==
  LET row == TaskRow(seq + 1, uid, ti, de, st, pr, du, t, t) IN
  IF \A u \in us : u.id # uid
  THEN QueryError("violates foreign key constraint tasks_user_id_fkey", ts)
  ELSE IF RowConstraintError(row) # "" THEN QueryError(RowConstraintError(row), ts)
  ELSE QueryResult({row}, ts \cup {row})

\* Variant: WHERE id = $1, without the owner.
SelectTask_AnyOwner(ts, id, uid) ==
  IF ~IsUuid(id) THEN QueryError("invalid input syntax for type uuid", ts)
  ELSE QueryResult({r \in ts : r.id = id}, ts)

\* SELECT * FROM tasks WHERE id = $1 AND user_id = $2
SelectTask(ts, id, uid) ==
  IF ~IsUuid(id) THEN QueryError("invalid input syntax for type uuid", ts)
  ELSE QueryResult({r \in ts : r.id = id /\ r.user_id = uid}, ts)

\* Variant: the rows are reported as deleted and stay in the table.
DeleteTaskRows_Soft(ts, id, uid) ==
  IF ~IsUuid(id) THEN QueryError("invalid input syntax for type uuid", ts)
  ELSE QueryResult({r \in ts : r.id = id /\ r.user_id = uid}, ts)

\* DELETE FROM tasks WHERE id = $1 AND user_id = $2 (rows: the rows deleted)
DeleteTaskRows(ts, id, uid) ==
  IF ~IsUuid(id) THEN QueryError("invalid input syntax for type uuid", ts)
  ELSE LET hit == {r \in ts : r.id = id /\ r.user_id = uid}
       IN QueryResult(hit, ts \ hit)

\* The SET list of the UPDATE as a record: a column the statement does not
\* assign holds Undefined.
SetList(ti, de, st, pr, du) ==
  [title |-> ti, description |-> de, status |-> st, priority |-> pr, due_date |-> du]

Assigned(new, old) == IF new = Undefined THEN old ELSE new

\* Variant: WHERE id = $n, without the owner.
UpdateTask_AnyOwner(ts, set, id, uid, t) ==
  IF ~IsUuid(id) THEN QueryError("invalid input syntax for type uuid", ts)
  ELSE LET hit == {r \in ts : r.id = id}
           upd(r) == TaskRow(r.id, r.user_id, Assigned(set.title, r.title),
                             Assigned(set.description, r.description),
                             Assigned(set.status, r.status),
                             Assigned(set.priority, r.priority),
                             Assigned(set.due_date, r.due_date), r.created_at, t)
           new == {upd(r) : r \in hit}
       IN IF \E r \in new : RowConstraintError(r) # ""
          THEN QueryError(RowConstraintError(CHOOSE r \in new : RowConstraintError(r) # ""), ts)
          ELSE QueryResult(new, (ts \ hit) \cup new)

\* Variant: the SET list without updated_at = now().
UpdateTask_KeepUpdatedAt(ts, set, id, uid, t) ==
  IF ~IsUuid(id) THEN QueryError("invalid input syntax for type uuid", ts)
  ELSE LET hit == {r \in ts : r.id = id /\ r.user_id = uid}
           upd(r) == TaskRow(r.id, r.user_id, Assigned(set.title, r.title),
                             Assigned(set.description, r.description),
                             Assigned(set.status, r.status),
                             Assigned(set.priority, r.priority),
                             Assigned(set.due_date, r.due_date), r.created_at, r.updated_at)
           new == {upd(r) : r \in hit}
       IN IF \E r \in new : RowConstraintError(r) # ""
          THEN QueryError(RowConstraintError(CHOOSE r \in new : RowConstraintError(r) # ""), ts)
          ELSE QueryResult(new, (ts \ hit) \cup new)

\* Variant: WHERE user_id = $m, without the id.
UpdateTask_AllOfOwner(ts, set, id, uid, t) ==
  IF ~IsUuid(id) THEN QueryError("invalid input syntax for type uuid", ts)
  ELSE LET hit == {r \in ts : r.user_id = uid}
           upd(r) == TaskRow(r.id, r.user_id, Assigned(set.title, r.title),
                             Assigned(set.description, r.description),
                             Assigned(set.status, r.status),
                             Assigned(set.priority, r.priority),
                             Assigned(set.due_date, r.due_date), r.created_at, t)
           new == {upd(r) : r \in hit}
       IN IF \E r \in new : RowConstraintError(r) # ""
          THEN QueryError(RowConstraintError(CHOOSE r \in new : RowConstraintError(r) # ""), ts)
          ELSE QueryResult(new, (ts \ hit) \cup new)

\* UPDATE tasks SET updated_at = now(), <set list> WHERE id = $n AND user_id = $m
\* RETURNING *
UpdateTask(ts, set, id, uid, t) ==
  IF ~IsUuid(id) THEN QueryError("invalid input syntax for type uuid", ts)
  ELSE LET hit == {r \in ts : r.id = id /\ r.user_id = uid}
           upd(r) == TaskRow(r.id, r.user_id, Assigned(set.title, r.title),
                             Assigned(set.description, r.description),
                             Assigned(set.status, r.status),
                             Assigned(set.priority, r.priority),
                             Assigned(set.due_date, r.due_date), r.created_at, t)
           new == {upd(r) : r \in hit}
       IN IF \E r \in new : RowConstraintError(r) # ""
          THEN QueryError(RowConstraintError(CHOOSE r \in new : RowConstraintError(r) # ""), ts)
          ELSE QueryResult(new, (ts \ hit) \cup new)

\* Variant: the WHERE clause of the list without user_id = $1.
MatchesList_AnyOwner(r, uid, st, pr) ==
  /\ (st # Undefined => r.status = st)
  /\ (pr # Undefined => r.priority = pr)

\* The WHERE clause of the list: user_id = $1 [AND status = $2] [AND priority = $3];
\* a filter that is not supplied is Undefined.
MatchesList(r, uid, st, pr) ==
  /\ r.user_id = uid
  /\ (st # Undefined => r.status = st)
  /\ (pr # Undefined => r.priority = pr)

\* SELECT COUNT(*)::int AS total FROM tasks WHERE ...
CountTasks(ts, uid, st, pr) == Cardinality({r \in ts : MatchesList(r, uid, st, pr)})

\* Variant: ORDER BY created_at ASC.
OrderedByCreatedDesc_Asc(rows) ==
  LET n == Cardinality(rows) IN
  { q \in [1..n -> rows] :
      /\ \A i, j \in 1..n : i # j => q[i] # q[j]
      /\ \A i \in 1..n : \A j \in 1..n : i < j => q[i].created_at <= q[j].created_at }

\* The sequences a query may return for ORDER BY created_at DESC: every
\* arrangement of the rows with created_at non-increasing (SQL leaves the
\* order of rows with equal keys open).
OrderedByCreatedDesc(rows) ==
  LET n == Cardinality(rows) IN
  { q \in [1..n -> rows] :
      /\ \A i, j \in 1..n : i # j => q[i] # q[j]
      /\ \A i \in 1..n : \A j \in 1..n : i < j => q[i].created_at >= q[j].created_at }

\* Variant: the OFFSET is dropped, every page is the first one.
LimitOffset_NoOffset(q, l, o) == SubSeq(q, 1, Min(Len(q), l))

\* LIMIT $l OFFSET $o applied to an ordered result.
LimitOffset(q, l, o) ==
  IF o >= Len(q) THEN <<>> ELSE SubSeq(q, o + 1, Min(Len(q), o + l))

\* SELECT * FROM tasks WHERE ... ORDER BY created_at DESC LIMIT $l OFFSET $o:
\* the set of results the store may return.
SelectTaskPage(ts, uid, st, pr, l, o) ==
  { LimitOffset(q, l, o) : q \in OrderedByCreatedDesc({r \in ts : MatchesList(r, uid, st, pr)}) }

----------------------------------------------------------------------------
(* Tasks router: the handlers as functions of req.user, the request and the
   store.  A handler yields its response and the table it leaves. *)

TaskBody(ti, de, st, pr, du, uid) ==
  [title |-> ti, description |-> de, status |-> st, priority |-> pr,
   due_date |-> du, user_id |-> uid]
NoBody == TaskBody(Undefined, Undefined, Undefined, Undefined, Undefined, 0)

ListQuery(st, pr, pg, li) == [status |-> st, priority |-> pr, page |-> pg, limit |-> li]
NoQuery == ListQuery(Undefined, Undefined, Undefined, Undefined)

Handled(res, ts) == [res |-> res, tasks |-> ts]

\* Variant: description is passed through.
rowToTask_Raw(row) ==
  [id |-> row.id, title |-> row.title, description |-> row.description,
   status |-> row.status, priority |-> row.priority, due_date |-> row.due_date,
   created_at |-> row.created_at, updated_at |-> row.updated_at, user_id |-> row.user_id]

rowToTask(row) ==
  [id |-> row.id, title |-> row.title,
   description |-> IF row.description = Null THEN Str(<<>>) ELSE row.description,
   status |-> row.status, priority |-> row.priority, due_date |-> row.due_date,
   created_at |-> row.created_at, updated_at |-> row.updated_at, user_id |-> row.user_id]

\* Variant: the rejection of the handler's promise is dropped, next(err) is not
\* called and nothing is sent.
asyncHandler_Swallow(q, ts) == Handled(NoResponse, ts)

\* asyncHandler: a rejected pool.query reaches next(err), the app's error handler.
asyncHandler(q, ts) == Handled(AppErrorHandler(q.error), ts)

NotFound == Response(404, ErrorBody("Task not found"))

\* Variant: the offset counts pages from 0.
listParse_OffsetFromPage(query) ==
  LET page == Max(1, NumberOr(ParseInt(query.page), 1))
      limit == Min(100, Max(1, NumberOr(ParseInt(query.limit), 20)))
      res == IF Truthy(query.status) /\ query.status \notin STATUSES
             THEN Response(400, ErrorBody("Invalid status"))
             ELSE IF Truthy(query.priority) /\ query.priority \notin PRIORITIES
             THEN Response(400, ErrorBody("Invalid priority"))
             ELSE NoResponse
  IN [res |-> res, page |-> page, limit |-> limit, offset |-> page * limit,
      status |-> IF Truthy(query.status) THEN query.status ELSE Undefined,
      priority |-> IF Truthy(query.priority) THEN query.priority ELSE Undefined]

\* router.get('/'), before its queries: page, limit, offset, the filters and
\* the 400 of an unknown status or priority (res = NoResponse when it passes).
listParse(query) ==
  LET page == Max(1, NumberOr(ParseInt(query.page), 1))
      limit == Min(100, Max(1, NumberOr(ParseInt(query.limit), 20)))
      res == IF Truthy(query.status) /\ query.status \notin STATUSES
             THEN Response(400, ErrorBody("Invalid status"))
             ELSE IF Truthy(query.priority) /\ query.priority \notin PRIORITIES
             THEN Response(400, ErrorBody("Invalid priority"))
             ELSE NoResponse
  IN [res |-> res, page |-> page, limit |-> limit, offset |-> (page - 1) * limit,
      status |-> IF Truthy(query.status) THEN query.status ELSE Undefined,
      priority |-> IF Truthy(query.priority) THEN query.priority ELSE Undefined]

\* router.get('/'): the response built from the count and one result of the
\* page query.
listResponse(rows, total, page, limit) ==
  Response(200, [data |-> [i \in 1..Len(rows) |-> rowToTask(rows[i])],
                 total |-> total, page |-> page, limit |-> limit])

\* Variant: the owner is read from the body when the body names one.
createOwner_FromBody(user, body) == IF body.user_id # 0 THEN body.user_id ELSE user.userId

\* router.post('/'): the owner of the new row, const userId = req.user.userId.
createOwner(user, body) == user.userId

\* Variant: the title is not trimmed before it is tested.
titleMissing_NoTrim(title) == ~Truthy(title) \/ ~IsString(title)

\* router.post('/'): !title || typeof title !== "string" || !title.trim()
titleMissing(title) == ~Truthy(title) \/ ~IsString(title) \/ ~Truthy(Trim(title))

\* Variant: a value that is no member of the enumeration takes the default.
trimOrDefault_Lenient(v, d) ==
  IF IsString(v) /\ Truthy(Trim(v)) /\ Trim(v) \in STATUSES \cup PRIORITIES
  THEN Trim(v) ELSE d

\* router.post('/'): (v?.trim() || d), for status and priority
trimOrDefault(v, d) == IF IsString(v) /\ Truthy(Trim(v)) THEN Trim(v) ELSE d

\* router.post('/')
create(user, body, ts, us, seq, t) ==
  IF titleMissing(body.title)
  THEN Handled(Response(400, ErrorBody("Title is required")), ts)
  ELSE LET taskStatus == trimOrDefault(body.status, Str(<<"todo">>))
           taskPriority == trimOrDefault(body.priority, Str(<<"medium">>))
           dueDate == IF Truthy(body.due_date) THEN body.due_date ELSE Null
       IN IF taskStatus \notin STATUSES
          THEN Handled(Response(400, ErrorBody("Invalid status")), ts)
          ELSE IF taskPriority \notin PRIORITIES
          THEN Handled(Response(400, ErrorBody("Invalid priority")), ts)
          ELSE LET q == InsertTask(ts, us, seq, createOwner(user, body), Trim(body.title),
                                   TrimOrNull(body.description), taskStatus,
                                   taskPriority, dueDate, t)
               IN IF q.error # "" THEN asyncHandler(q, ts)
                  ELSE Handled(Response(201, rowToTask(CHOOSE r \in q.rows : TRUE)), q.tasks)

\* router.get('/:id')
get(user, id, ts) ==
  LET q == SelectTask(ts, id, user.userId) IN
  IF q.error # "" THEN asyncHandler(q, ts)
  ELSE IF q.rows = {} THEN Handled(NotFound, ts)
  ELSE Handled(Response(200, rowToTask(CHOOSE r \in q.rows : TRUE)), ts)

\* router.patch('/:id'): the 400 of its validation (NoResponse when it passes).
patchValidate(body) ==
  IF body.status # Undefined /\ body.status \notin STATUSES
  THEN Response(400, ErrorBody("Invalid status"))
  ELSE IF body.priority # Undefined /\ body.priority \notin PRIORITIES
  THEN Response(400, ErrorBody("Invalid priority"))
  ELSE NoResponse

\* Variant: a status that the body does not carry is set to todo.
patchSetList_ResetStatus(body) ==
  SetList(IF IsString(body.title) THEN Trim(body.title) ELSE body.title,
          IF IsString(body.description) THEN Trim(body.description) ELSE body.description,
          IF body.status = Undefined THEN Str(<<"todo">>) ELSE body.status, body.priority,
          IF body.due_date = Undefined THEN Undefined
          ELSE IF body.due_date = Null \/ body.due_date = Str(<<>>) THEN Null
          ELSE body.due_date)

\* router.patch('/:id'): the SET list built from the body.
patchSetList(body) ==
  SetList(IF IsString(body.title) THEN Trim(body.title) ELSE body.title,
          IF IsString(body.description) THEN Trim(body.description) ELSE body.description,
          body.status, body.priority,
          IF body.due_date = Undefined THEN Undefined
          ELSE IF body.due_date = Null \/ body.due_date = Str(<<>>) THEN Null
          ELSE body.due_date)

NoValues(set) == \A f \in DOMAIN set : set[f] = Undefined

\* Variant: the task is looked up before the body is validated.
patch_LookupFirst(user, id, body, ts, t) ==
  LET look == SelectTask(ts, id, user.userId) IN
  IF look.error # "" THEN asyncHandler(look, ts)
  ELSE IF look.rows = {} THEN Handled(NotFound, ts)
  ELSE IF patchValidate(body) # NoResponse THEN Handled(patchValidate(body), ts)
  ELSE LET set == patchSetList(body)
           q == IF NoValues(set) THEN SelectTask(ts, id, user.userId)
                ELSE UpdateTask(ts, set, id, user.userId, t)
       IN IF q.error # "" THEN asyncHandler(q, ts)
          ELSE IF q.rows = {} THEN Handled(NotFound, ts)
          ELSE Handled(Response(200, rowToTask(CHOOSE r \in q.rows : TRUE)), q.tasks)

\* router.patch('/:id')
patch(user, id, body, ts, t) ==
  IF patchValidate(body) # NoResponse THEN Handled(patchValidate(body), ts)
  ELSE LET set == patchSetList(body)
           q == IF NoValues(set) THEN SelectTask(ts, id, user.userId)
                ELSE UpdateTask(ts, set, id, user.userId, t)
       IN IF q.error # "" THEN asyncHandler(q, ts)
          ELSE IF q.rows = {} THEN Handled(NotFound, ts)
          ELSE Handled(Response(200, rowToTask(CHOOSE r \in q.rows : TRUE)), q.tasks)

\* router.delete('/:id')
delete(user, id, ts) ==
  LET q == DeleteTaskRows(ts, id, user.userId) IN
  IF q.error # "" THEN asyncHandler(q, ts)
  ELSE IF Cardinality(q.rows) = 0 THEN Handled(NotFound, ts)
  ELSE Handled(Response(204, [none |-> TRUE]), q.tasks)

----------------------------------------------------------------------------
(* State *)

VARIABLES
  jwtSecret,   \* config.jwtSecret as the handlers read it
  now,         \* the application server's clock, in days
  users,       \* rows of table users
  pending,     \* register requests between bcrypt.hash and their INSERT
  issued,      \* tokens that login has returned to clients
  registered,  \* history: the (email, password, id) of every 201 of register
  tasks,       \* rows of table tasks
  taskSeq,     \* how many task ids the store has generated
  dbNow,       \* the store's clock: what now() yields
  listReq,     \* a list request between its count query and its page query
  created,     \* history: the (id, req.user.userId) of every 201 of POST /tasks
  deleted,     \* history: the ids whose DELETE was answered 204
  last,        \* the request handled by the latest step and its outcome
  localStorage,  \* the browser's localStorage, by key
  provider,    \* AuthProvider: its state user and isLoading; mounted: its effect ran
  calls,       \* the async calls of AuthProvider that await a response of the api
  frontHist    \* history: how many logins were answered; login() completed and
               \* logout() was not called since

authVars == <<jwtSecret, now, users, pending, issued, registered>>
taskVars == <<tasks, taskSeq, dbNow, listReq, created, deleted>>
frontVars == <<localStorage, provider, calls, frontHist>>

----------------------------------------------------------------------------
(* Table users *)

\* raced is history only: the email was not stored when the request arrived.
NoPending == [busy |-> FALSE, email |-> Undefined, password |-> Undefined,
              password_hash |-> BcryptHash(Str(<<>>), 0), name |-> Undefined,
              raced |-> FALSE]

UserRow(i, e, h, n) == [id |-> i, email |-> e, password_hash |-> h, name |-> n]

\* Variant: no UNIQUE constraint on users.email.
UniqueEmailViolation_None(us, e) == FALSE

\* The UNIQUE constraint on users.email: does the insert of email e conflict?
UniqueEmailViolation(us, e) == \E u \in us : u.email = e

\* The width of users.email, VARCHAR(255).
EmailWidth == 255

\* INSERT INTO users (email, password_hash, name) ... RETURNING id, email, name:
\* the new row's id is generated; an email wider than the column raises error
\* code 22001 and a conflict raises error code 23505.
InsertUser(us, e, h, n) ==
  IF Len(e.chars) > EmailWidth
  THEN [code |-> "22001", rows |-> {}, users |-> us]
  ELSE IF UniqueEmailViolation(us, e)
  THEN [code |-> "23505", rows |-> {}, users |-> us]
  ELSE LET row == UserRow(Cardinality(us) + 1, e, h, n)
       IN [code |-> "", rows |-> {row}, users |-> us \cup {row}]

\* SELECT id, email, password_hash, name FROM users WHERE email = $1
SelectUserByEmail(us, e) == {u \in us : u.email = e}

\* SELECT id, email, name, ... FROM users WHERE id = $1
SelectUserById(us, i) == {u \in us : u.id = i}

----------------------------------------------------------------------------
(* Auth router *)

Credentials(e, p, n) == [email |-> e, password |-> p, name |-> n]

UserBody(row) == [id |-> row.id, email |-> row.email, name |-> row.name]

\* router.post('/register'), up to the await of bcrypt.hash: the validation.
registerValidate(body) ==
  IF ~Truthy(body.email) \/ ~Truthy(body.password)
  THEN Response(400, ErrorBody("Email and password are required"))
  ELSE NoResponse

\* router.post('/register'), from the INSERT on: the response and the new table.
registerInsert(p, us) ==
  LET q == InsertUser(us, Trim(p.email), p.password_hash, TrimOrNull(p.name)) IN
  IF q.code = "23505"
  THEN [res |-> Response(409, ErrorBody("Email already registered")), users |-> us]
  ELSE IF q.code # ""
  THEN [res |-> AppErrorHandler("value too long for type character varying(255)"),
        users |-> us]
  ELSE LET row == CHOOSE r \in q.rows : TRUE
       IN [res |-> Response(201, UserBody(row)), users |-> q.users]

\* Variant: the query is by the email as sent.
loginLookup_NoTrim(body, us) == SelectUserByEmail(us, body.email)

\* Variant: the secret is checked before the credentials.
login_SecretFirst(body, us, secret, t) ==
  IF ~Truthy(body.email) \/ ~Truthy(body.password)
  THEN Response(400, ErrorBody("Email and password are required"))
  ELSE IF ~Truthy(secret)
  THEN Response(500, ErrorBody("Server misconfiguration"))
  ELSE LET rows == SelectUserByEmail(us, Trim(body.email)) IN
       IF rows = {} \/ ~BcryptCompare(body.password, (CHOOSE r \in rows : TRUE).password_hash)
       THEN Response(401, ErrorBody("Invalid email or password"))
       ELSE LET row == CHOOSE r \in rows : TRUE
            IN Response(200, [token |-> JwtSign([userId |-> row.id, email |-> row.email], secret, t),
                              user |-> UserBody(row)])

\* router.post('/login'): the rows of its query, by the trimmed email.
loginLookup(body, us) == SelectUserByEmail(us, Trim(body.email))

\* router.post('/login'): the response.
login(body, us, secret, t) ==
  IF ~Truthy(body.email) \/ ~Truthy(body.password)
  THEN Response(400, ErrorBody("Email and password are required"))
  ELSE LET rows == loginLookup(body, us) IN
       IF rows = {} \/ ~BcryptCompare(body.password, (CHOOSE r \in rows : TRUE).password_hash)
       THEN Response(401, ErrorBody("Invalid email or password"))
       ELSE IF ~Truthy(secret)
       THEN Response(500, ErrorBody("Server misconfiguration"))
       ELSE LET row == CHOOSE r \in rows : TRUE
            IN Response(200, [token |-> JwtSign([userId |-> row.id, email |-> row.email], secret, t),
                              user |-> UserBody(row)])

\* router.get('/me') behind authenticate: the handler's response for req.user.
me(user, us) ==
  LET rows == SelectUserById(us, user.userId) IN
  IF rows = {} THEN Response(404, ErrorBody("User not found"))
  ELSE Response(200, UserBody(CHOOSE r \in rows : TRUE))

----------------------------------------------------------------------------
(* Requests to the auth router *)

Unauth == AuthOutcome(0, NoResponse, NoUser)
NoReq == Credentials(Undefined, Undefined, Undefined)

\* What a step handled: the route, its input, the Authorization header, what
\* authenticate did (for a protected route), whether the route's handler ran
\* (Express runs it when next() was called) and the response sent.
Last(op, req, h, a, ran, res) ==
  [op |-> op, req |-> req, hdr |-> h, auth |-> a, ran |-> ran, res |-> res]

\* The response of a protected route: authenticate's when it sent one.
ProtectedResponse(a, handlerRes) == IF a.res # NoResponse THEN a.res ELSE handlerRes

FreeSlots == {s \in 1..MaxPending : ~pending[s].busy}

\* POST /api/auth/register arrives: validation, then bcrypt.hash is awaited.
RegisterBegin(body) ==
  LET v == registerValidate(body) IN
  IF v # NoResponse
  THEN /\ last' = Last("register", body, NoHeader, Unauth, TRUE, v)
       /\ UNCHANGED <<authVars, taskVars, frontVars>>
  ELSE /\ FreeSlots # {}
       /\ LET s == CHOOSE x \in FreeSlots : \A y \in FreeSlots : x <= y IN
          pending' = [pending EXCEPT ![s] =
                        [busy |-> TRUE, email |-> body.email, password |-> body.password,
                         password_hash |-> BcryptHash(body.password, SALT_ROUNDS),
                         name |-> body.name,
                         raced |-> \A u \in users : u.email # Trim(body.email)]]
       /\ last' = Last("register", body, NoHeader, Unauth, TRUE, NoResponse)
       /\ UNCHANGED <<jwtSecret, now, users, issued, registered, taskVars, frontVars>>

\* The hash is ready: the INSERT runs and register responds.
RegisterInsert(s) ==
  /\ pending[s].busy
  /\ LET p == pending[s]
         r == registerInsert(p, users)
     IN /\ users' = r.users
        /\ registered' = IF r.res.status = 201
                         THEN registered \cup {[email |-> p.email, password |-> p.password,
                                                id |-> r.res.body.id]}
                         ELSE registered
        /\ last' = Last("register", [email |-> p.email, password |-> p.password,
                                     name |-> p.name, raced |-> p.raced],
                        NoHeader, Unauth, TRUE, r.res)
  /\ pending' = [pending EXCEPT ![s] = NoPending]
  /\ UNCHANGED <<jwtSecret, now, issued, taskVars, frontVars>>

\* POST /api/auth/login
Login(body) ==
  LET r == login(body, users, jwtSecret, now) IN
  /\ issued' = IF r.status = 200 THEN issued \cup {r.body.token} ELSE issued
  /\ Cardinality(issued') <= MaxTokens
  /\ last' = Last("login", body, NoHeader, Unauth, TRUE, r)
  /\ UNCHANGED <<jwtSecret, now, users, pending, registered, taskVars, frontVars>>

\* GET /api/auth/me
Me(h) ==
  LET a == authenticate(h, jwtSecret, now)
      ran == a.next > 0
  IN /\ last' = Last("me", NoReq, h, a, ran,
                     ProtectedResponse(a, IF ran THEN me(a.user, users) ELSE NoResponse))
     /\ UNCHANGED <<authVars, taskVars, frontVars>>

\* Time passes on the application server.
Tick(d) ==
  /\ now + d <= MaxNow
  /\ now' = now + d
  /\ last' = Last("tick", NoReq, NoHeader, Unauth, FALSE, NoResponse)
  /\ UNCHANGED <<jwtSecret, users, pending, issued, registered, taskVars, frontVars>>

----------------------------------------------------------------------------
(* Requests to the tasks router (router.use(authenticate)) *)

TaskReq(id, body, query, target) ==
  [id |-> id, body |-> body, query |-> query, target |-> target]

\* History only: whose task the path id named when the request arrived.
Target(ts, id, uid) ==
  IF \A r \in ts : r.id # id THEN "absent"
  ELSE IF \E r \in ts : r.id = id /\ r.user_id = uid THEN "own" ELSE "foreign"

\* History only: the list that was answered in the step before a list arrived
\* (no request came between the two), as the client saw it, when the list that
\* arrives asks for the page after it with the same filters and limit.
NoPrev == [answered |-> FALSE, caller |-> 0, query |-> NoQuery, offset |-> 0, data |-> <<>>]
PrevList(l, query, limit, offset) ==
  IF /\ l.op = "list" /\ l.res.status = 200
     /\ l.req.query.status = query.status /\ l.req.query.priority = query.priority
     /\ l.req.limit = limit /\ l.req.offset + limit = offset
  THEN [answered |-> TRUE, caller |-> l.auth.user.userId, query |-> l.req.query,
        offset |-> l.req.offset, data |-> l.res.body.data]
  ELSE NoPrev

\* The request of a list that passed its validation; limit, offset and prev are
\* history: the LIMIT and OFFSET of its page query and the list answered just
\* before it arrived.
ListReq(query, limit, offset, prev) ==
  [id |-> 0, body |-> NoBody, query |-> query, target |-> "none",
   limit |-> limit, offset |-> offset, prev |-> prev]

\* No list is between its queries.  Of a list in flight, total is the result of
\* its count query and seq is history: the last id the store had generated when
\* the count query ran.
NoList == [busy |-> FALSE, hdr |-> NoHeader, auth |-> Unauth, query |-> NoQuery, total |-> 0,
           seq |-> 0]

\* GET /api/tasks arrives: authenticate, the validation, then the count query.
ListCount(h, query) ==
  LET a == authenticate(h, jwtSecret, now)
      ran == a.next > 0
      p == listParse(query)
      req == TaskReq(0, NoBody, query, "none")
  IN /\ ~listReq.busy
     /\ IF ran /\ p.res = NoResponse
        THEN /\ listReq' = [busy |-> TRUE, hdr |-> h, auth |-> a, query |-> query,
                            total |-> CountTasks(tasks, a.user.userId, p.status, p.priority),
                            seq |-> taskSeq]
             /\ last' = Last("list", ListReq(query, p.limit, p.offset,
                                          PrevList(last, query, p.limit, p.offset)),
                             h, a, ran, NoResponse)
        ELSE /\ listReq' = listReq
             /\ last' = Last("list", req, h, a, ran,
                             ProtectedResponse(a, IF ran THEN p.res ELSE NoResponse))
     /\ UNCHANGED <<authVars, tasks, taskSeq, dbNow, created, deleted, frontVars>>

\* The page query of the list in flight runs and the list responds.
ListPage ==
  /\ listReq.busy
  /\ LET p == listParse(listReq.query)
         prev == IF last.op = "list" /\ last.res = NoResponse THEN last.req.prev ELSE NoPrev
     IN
     \E rows \in SelectTaskPage(tasks, listReq.auth.user.userId, p.status, p.priority,
                                p.limit, p.offset) :
       last' = Last("list", ListReq(listReq.query, p.limit, p.offset, prev), listReq.hdr,
                    listReq.auth, TRUE, listResponse(rows, listReq.total, p.page, p.limit))
  /\ listReq' = NoList
  /\ UNCHANGED <<authVars, tasks, taskSeq, dbNow, created, deleted, frontVars>>

\* POST /api/tasks
CreateTask(h, body) ==
  LET a == authenticate(h, jwtSecret, now)
      ran == a.next > 0
      r == IF ran THEN create(a.user, body, tasks, users, taskSeq, dbNow)
           ELSE Handled(NoResponse, tasks)
      inserted == r.tasks # tasks
  IN /\ inserted => taskSeq < MaxTasks
     /\ tasks' = r.tasks
     /\ taskSeq' = IF inserted THEN taskSeq + 1 ELSE taskSeq
     /\ created' = IF inserted
                   THEN created \cup {[id |-> taskSeq + 1, by |-> a.user.userId]}
                   ELSE created
     /\ last' = Last("create", TaskReq(0, body, NoQuery, "none"), h, a, ran,
                     ProtectedResponse(a, r.res))
     /\ UNCHANGED <<authVars, dbNow, listReq, deleted, frontVars>>

\* GET /api/tasks/:id
GetTask(h, id) ==
  LET a == authenticate(h, jwtSecret, now)
      ran == a.next > 0
      r == IF ran THEN get(a.user, id, tasks) ELSE Handled(NoResponse, tasks)
  IN /\ last' = Last("get", TaskReq(id, NoBody, NoQuery, Target(tasks, id, a.user.userId)),
                     h, a, ran, ProtectedResponse(a, r.res))
     /\ UNCHANGED <<authVars, taskVars, frontVars>>

\* PATCH /api/tasks/:id
PatchTask(h, id, body) ==
  LET a == authenticate(h, jwtSecret, now)
      ran == a.next > 0
      r == IF ran THEN patch(a.user, id, body, tasks, dbNow) ELSE Handled(NoResponse, tasks)
  IN /\ tasks' = r.tasks
     /\ last' = Last("patch", TaskReq(id, body, NoQuery, Target(tasks, id, a.user.userId)),
                     h, a, ran, ProtectedResponse(a, r.res))
     /\ UNCHANGED <<authVars, taskSeq, dbNow, listReq, created, deleted, frontVars>>

\* DELETE /api/tasks/:id
DeleteTask(h, id) ==
  LET a == authenticate(h, jwtSecret, now)
      ran == a.next > 0
      r == IF ran THEN delete(a.user, id, tasks) ELSE Handled(NoResponse, tasks)
  IN /\ tasks' = r.tasks
     /\ deleted' = IF r.res.status = 204 THEN deleted \cup {id} ELSE deleted
     /\ last' = Last("delete", TaskReq(id, NoBody, NoQuery, Target(tasks, id, a.user.userId)),
                     h, a, ran, ProtectedResponse(a, r.res))
     /\ UNCHANGED <<authVars, taskSeq, dbNow, listReq, created, frontVars>>

\* Time passes on the store.
TickDb ==
  /\ dbNow < MaxDbNow
  /\ dbNow' = dbNow + 1
  /\ last' = Last("tick", NoReq, NoHeader, Unauth, FALSE, NoResponse)
  /\ UNCHANGED <<authVars, tasks, taskSeq, listReq, created, deleted, frontVars>>

----------------------------------------------------------------------------
(* Frontend: AuthProvider, the api client and ProtectedRoute *)

TOKEN_KEY == "token"

\* A token as the browser holds it: whose it is and which login answered it.
ClientToken(u, n) == [userId |-> u, serial |-> n]
\* The User of the api client.
ClientUser(u) == [id |-> u]

\* An async call of AuthProvider at an await: fn is the callback, at the
\* request of the api it awaits, token the Authorization the request was sent
\* with (request reads it when it is called) and user whose credentials a
\* login or register carries.
Call(fn, at, token, u) == [fn |-> fn, at |-> at, token |-> token, user |-> u]
NoCall == Call("none", "none", Null, Null)

FreeCalls == {c \in 1..MaxCalls : calls[c] = NoCall}
NewCall(call) ==
  [calls EXCEPT ![CHOOSE c \in FreeCalls : \A d \in FreeCalls : c <= d] = call]

\* getToken(): localStorage.getItem('token')
getToken == localStorage[TOKEN_KEY]

\* The context value: user, isLoading, isAuthenticated: !!user.
useAuth ==
  [user |-> provider.user, isLoading |-> provider.isLoading,
   isAuthenticated |-> provider.user # Null]

\* Variant: the route does not wait for isLoading.
ProtectedRoute_NoSpinner(ctx) ==
  IF ~ctx.isAuthenticated THEN "navigate" ELSE "children"

\* ProtectedRoute: what it renders for a context value.
ProtectedRoute(ctx) ==
  IF ctx.isLoading THEN "spinner"
  ELSE IF ~ctx.isAuthenticated THEN "navigate"
  ELSE "children"

\* The browser before the application is opened; the state of the steps of
\* the server alone.
BrowserClosed ==
  /\ localStorage = [k \in {TOKEN_KEY} |-> Null]
  /\ provider = [user |-> Null, isLoading |-> TRUE, mounted |-> FALSE]
  /\ calls = [c \in 1..MaxCalls |-> NoCall]
  /\ frontHist = [serial |-> 0, loggedIn |-> FALSE]

\* useEffect after the first render: loadUser() up to its await of me().
Mount ==
  /\ ~provider.mounted
  /\ IF getToken = Null
     THEN /\ provider' = [provider EXCEPT !.mounted = TRUE, !.user = Null,
                                          !.isLoading = FALSE]
          /\ calls' = calls
     ELSE /\ provider' = [provider EXCEPT !.mounted = TRUE]
          /\ calls' = NewCall(Call("loadUser", "me", getToken, Null))
  /\ UNCHANGED <<localStorage, frontHist, authVars, taskVars, last>>

\* me() of loadUser resolves with the user of the token it was sent with:
\* setUser(me), and finally setIsLoading(false).
MeResolve(c) ==
  /\ calls[c].at = "me"
  /\ provider' = [provider EXCEPT !.user = ClientUser(calls[c].token.userId),
                                  !.isLoading = FALSE]
  /\ calls' = [calls EXCEPT ![c] = NoCall]
  /\ UNCHANGED <<localStorage, frontHist, authVars, taskVars, last>>

\* me() of loadUser rejects (a response that is not ok, or fetch fails): the
\* catch removes the token and sets user to null, finally setIsLoading(false).
MeReject(c) ==
  /\ calls[c].at = "me"
  /\ localStorage' = [localStorage EXCEPT ![TOKEN_KEY] = Null]
  /\ provider' = [provider EXCEPT !.user = Null, !.isLoading = FALSE]
  /\ calls' = [calls EXCEPT ![c] = NoCall]
  /\ UNCHANGED <<frontHist, authVars, taskVars, last>>

\* login(email, password) is called: authApi.login is awaited.
LoginStart(u) ==
  /\ provider.mounted
  /\ FreeCalls # {}
  /\ calls' = NewCall(Call("login", "login", Null, ClientUser(u)))
  /\ UNCHANGED <<localStorage, provider, frontHist, authVars, taskVars, last>>

\* authApi.login resolves, in login or in register: the token is stored and
\* setUser(u).
LoginResolve(c) ==
  /\ calls[c].at = "login"
  /\ frontHist.serial < MaxSerial
  /\ localStorage' = [localStorage EXCEPT
                        ![TOKEN_KEY] = ClientToken(calls[c].user.id, frontHist.serial + 1)]
  /\ provider' = [provider EXCEPT !.user = calls[c].user]
  /\ frontHist' = [serial |-> frontHist.serial + 1,
                   loggedIn |-> frontHist.loggedIn \/ calls[c].fn = "login"]
  /\ calls' = [calls EXCEPT ![c] = NoCall]
  /\ UNCHANGED <<authVars, taskVars, last>>

\* authApi.login rejects: login or register throws to its caller.
LoginReject(c) ==
  /\ calls[c].at = "login"
  /\ calls' = [calls EXCEPT ![c] = NoCall]
  /\ UNCHANGED <<localStorage, provider, frontHist, authVars, taskVars, last>>

\* register(email, password, name) is called: authApi.register is awaited.
RegisterStart(u) ==
  /\ provider.mounted
  /\ FreeCalls # {}
  /\ calls' = NewCall(Call("register", "register", Null, ClientUser(u)))
  /\ UNCHANGED <<localStorage, provider, frontHist, authVars, taskVars, last>>

\* authApi.register resolves: register goes on to await authApi.login.
RegisterResolve(c) ==
  /\ calls[c].at = "register"
  /\ calls' = [calls EXCEPT ![c].at = "login"]
  /\ UNCHANGED <<localStorage, provider, frontHist, authVars, taskVars, last>>

\* authApi.register rejects: register throws to its caller.
RegisterReject(c) ==
  /\ calls[c].at = "register"
  /\ calls' = [calls EXCEPT ![c] = NoCall]
  /\ UNCHANGED <<localStorage, provider, frontHist, authVars, taskVars, last>>

\* logout(): the token is removed and setUser(null).
Logout ==
  /\ provider.mounted
  /\ localStorage' = [localStorage EXCEPT ![TOKEN_KEY] = Null]
  /\ provider' = [provider EXCEPT !.user = Null]
  /\ frontHist' = [frontHist EXCEPT !.loggedIn = FALSE]
  /\ UNCHANGED <<calls, authVars, taskVars, last>>

----------------------------------------------------------------------------
(* Inputs *)

EmailA == Str(<<"a">>)
EmailAPadded == Str(<<" ", "a", " ">>)
EmailB == Str(<<"b">>)
PasswordP == Str(<<"p">>)
PasswordQ == Str(<<"q">>)

RegisterInputs ==
  { Credentials(Undefined, PasswordP, Undefined),
    Credentials(EmailA, Str(<<>>), Undefined),
    Credentials(EmailA, PasswordP, Undefined),
    Credentials(EmailAPadded, PasswordQ, Str(<<" ">>)),
    Credentials(EmailB, PasswordP, Str(<<"n", " ">>)) }

EmailC == Str(<<"c">>)

LoginInputs ==
  { Credentials(Undefined, PasswordP, Undefined) } \cup
  { Credentials(e, p, Undefined) :
      e \in {EmailA, EmailAPadded, EmailB, EmailC}, p \in {Str(<<>>), PasswordP, PasswordQ} }

\* A token signed with another key, and one signed with the server's key by
\* another holder of it, carrying a not-before.
ForgedToken == JwtSign([userId |-> 1, email |-> EmailA], OtherSecret, 0)
NotBeforeToken == [JwtSign([userId |-> 2, email |-> EmailB], ServerSecret, 0)
                     EXCEPT !.nbf = 2, !.exp = 2 + TokenTTL]

HeaderInputs ==
  { NoHeader, Bearer(EmptyToken), Bearer(GarbageToken), Header("Basic ", GarbageToken),
    Bearer(ForgedToken), Bearer(NotBeforeToken) }
  \cup { Bearer(t) : t \in issued }
  \cup { Header("bearer ", t) : t \in issued }

TickInputs == {1, TokenTTL}

\* The ids the store has generated and one it has not.
IdInputs == 1..(taskSeq + 1)

----------------------------------------------------------------------------
(* Specifications *)

vars == <<authVars, taskVars, last, frontVars>>

\* After construction: an empty store; the secret is configured or it is not.
InitRegister ==
  /\ jwtSecret \in {Undefined, ServerSecret}
  /\ now = 0
  /\ users = {}
  /\ pending = [s \in 1..MaxPending |-> NoPending]
  /\ issued = {}
  /\ registered = {}
  /\ tasks = {}
  /\ taskSeq = 0
  /\ dbNow = 0
  /\ listReq = NoList
  /\ created = {}
  /\ deleted = {}
  /\ last = Last("init", NoReq, NoHeader, Unauth, FALSE, NoResponse)
  /\ BrowserClosed

\* Registration (with concurrent requests), login and me, at one instant.
NextRegister ==
  \/ \E body \in RegisterInputs : RegisterBegin(body)
  \/ \E s \in 1..MaxPending : RegisterInsert(s)
  \/ \E body \in LoginInputs : Login(body)
  \/ \E h \in HeaderInputs : Me(h)

SpecRegister == InitRegister /\ [][NextRegister]_vars

\* The store after register(a, p) and register(b, p), which SpecRegister reaches.
TwoUsers ==
  { UserRow(1, EmailA, BcryptHash(PasswordP, SALT_ROUNDS), Null),
    UserRow(2, EmailB, BcryptHash(PasswordP, SALT_ROUNDS), Str(<<"n">>)) }

InitAuth ==
  /\ jwtSecret \in {Undefined, ServerSecret}
  /\ now = 0
  /\ users = TwoUsers
  /\ pending = [s \in 1..MaxPending |-> NoPending]
  /\ issued = {}
  /\ registered = { [email |-> EmailA, password |-> PasswordP, id |-> 1],
                    [email |-> EmailB, password |-> PasswordP, id |-> 2] }
  /\ tasks = {}
  /\ taskSeq = 0
  /\ dbNow = 0
  /\ listReq = NoList
  /\ created = {}
  /\ deleted = {}
  /\ last = Last("init", NoReq, NoHeader, Unauth, FALSE, NoResponse)
  /\ BrowserClosed

\* Login, the protected routes me and GET /tasks/:id, and the passing of time,
\* for two users.
NextAuth ==
  \/ \E body \in LoginInputs : Login(body)
  \/ \E h \in HeaderInputs : Me(h)
  \/ \E h \in HeaderInputs, id \in IdInputs : GetTask(h, id)
  \/ \E d \in TickInputs : Tick(d)

SpecAuth == InitAuth /\ [][NextAuth]_vars

\* The state of InitAuth as SpecRegister reaches it.
AuthStoreReached ==
  users = TwoUsers /\ issued = {} /\ now = 0 /\ \A s \in 1..MaxPending : ~pending[s].busy

----------------------------------------------------------------------------
(* The tasks router for two users *)

TokenA == JwtSign([userId |-> 1, email |-> EmailA], ServerSecret, 0)
TokenB == JwtSign([userId |-> 2, email |-> EmailB], ServerSecret, 0)

TaskHeaderInputs == { Bearer(t) : t \in issued } \cup { Bearer(ForgedToken) }

Title(c) == Str(<<c>>)
StatusDone == Str(<<"done">>)
PriorityHigh == Str(<<"high">>)

CreateInputs ==
  { TaskBody(Title("a"), Undefined, Undefined, Undefined, Undefined, 2),
    TaskBody(Title(" "), Undefined, Undefined, Undefined, Undefined, 0) }

PatchInputs ==
  { NoBody,
    TaskBody(Undefined, Undefined, StatusDone, PriorityHigh, Undefined, 1),
    TaskBody(Undefined, Undefined, Str(<<"bogus">>), Undefined, Undefined, 0) }

ListInputs ==
  { NoQuery,
    ListQuery(StatusDone, PriorityHigh, Undefined, Str(<<"1">>)),
    ListQuery(Str(<<"bogus">>), Undefined, Undefined, Undefined) }


\* The store after register(a, p), register(b, p) and a login of each.
InitTasks ==
  /\ jwtSecret = ServerSecret
  /\ now = 0
  /\ users = TwoUsers
  /\ pending = [s \in 1..MaxPending |-> NoPending]
  /\ issued = {TokenA, TokenB}
  /\ registered = { [email |-> EmailA, password |-> PasswordP, id |-> 1],
                    [email |-> EmailB, password |-> PasswordP, id |-> 2] }
  /\ tasks = {}
  /\ taskSeq = 0
  /\ dbNow = 0
  /\ listReq = NoList
  /\ created = {}
  /\ deleted = {}
  /\ last = Last("init", NoReq, NoHeader, Unauth, FALSE, NoResponse)
  /\ BrowserClosed

\* The requests of the tasks router at one instant of the store's clock.
NextTasks ==
  \/ \E h \in TaskHeaderInputs, q \in ListInputs : ListCount(h, q)
  \/ ListPage
  \/ \E h \in TaskHeaderInputs, body \in CreateInputs : CreateTask(h, body)
  \/ \E h \in TaskHeaderInputs, id \in IdInputs : GetTask(h, id)
  \/ \E h \in TaskHeaderInputs, id \in IdInputs, body \in PatchInputs : PatchTask(h, id, body)
  \/ \E h \in TaskHeaderInputs, id \in IdInputs : DeleteTask(h, id)

SpecTasks == InitTasks /\ [][NextTasks]_vars

----------------------------------------------------------------------------
(* The list of the tasks router, with no write between its two queries *)

Digit(c) == Str(<<c>>)

\* limit as sent: absent, no number, 0, -5, 1, 2, 100, 101, 500.
LimitInputs ==
  { Undefined, Str(<<"abc">>), Digit("0"), Str(<<"-", "5">>), Digit("1"), Digit("2"),
    Str(<<"1", "0", "0">>), Str(<<"1", "0", "1">>), Str(<<"5", "0", "0">>) }

\* page as sent: absent, no number, 0, -1, 1, 2, 3.
PageInputs ==
  { Undefined, Str(<<"x">>), Digit("0"), Str(<<"-", "1">>), Digit("1"), Digit("2"),
    Digit("3") }

ListPagingInputs ==
  { ListQuery(Undefined, Undefined, pg, li) : pg \in {Undefined, Digit("2")}, li \in LimitInputs }
  \cup { ListQuery(Undefined, Undefined, pg, Digit("1")) : pg \in PageInputs }
  \cup { ListQuery(StatusDone, Undefined, pg, Digit("1")) : pg \in {Undefined, Digit("2")} }
  \cup { ListQuery(StatusDone, PriorityHigh, Undefined, Undefined),
         ListQuery(Undefined, PriorityHigh, Undefined, Undefined),
         ListQuery(Str(<<>>), Undefined, Undefined, Undefined) }

ListCreateInputs ==
  { TaskBody(Title("a"), Undefined, Undefined, Undefined, Undefined, 0),
    TaskBody(Title("a"), Undefined, StatusDone, PriorityHigh, Undefined, 0) }

\* User 1 lists; both users create, but not while a list is between its queries.
NextList ==
  \/ \E q \in ListPagingInputs : ListCount(Bearer(TokenA), q)
  \/ ListPage
  \/ \E h \in {Bearer(TokenA), Bearer(TokenB)}, body \in ListCreateInputs :
        ~listReq.busy /\ CreateTask(h, body)
  \/ ~listReq.busy /\ TickDb

SpecList == InitTasks /\ [][NextList]_vars

----------------------------------------------------------------------------
(* POST /api/tasks with every shape of title, status and priority *)

TitleInputs ==
  { Undefined, Null, Str(<<>>), Str(<<" ">>), Str(<<" ", " ">>), Title("a"),
    Str(<<" ", "a", " ">>) }

\* A status or priority as sent: absent, empty, blank, a member, a member with
\* blanks around it, no member, and no member with blanks around it.
EnumInputs(member) ==
  { Undefined, Str(<<>>), Str(<<" ">>), member, Str(<<" ">> \o member.chars \o <<" ">>),
    Str(<<"bogus">>), Str(<<" ", "bogus">>), Str(<<"DONE">>) }

CreateFormInputs ==
  { TaskBody(ti, Undefined, Undefined, Undefined, Undefined, 0) : ti \in TitleInputs }
  \cup { TaskBody(Title("a"), Undefined, st, Undefined, Undefined, 0) :
           st \in EnumInputs(StatusDone) }
  \cup { TaskBody(Title("a"), Undefined, Undefined, pr, Undefined, 0) :
           pr \in EnumInputs(PriorityHigh) }
  \cup { TaskBody(Str(<<" ">>), Undefined, StatusDone, PriorityHigh, Undefined, 0),
         TaskBody(Title("a"), Undefined, Str(<<" ">>), Str(<<"bogus">>), Undefined, 0),
         TaskBody(Title("a"), Str(<<" ", "d">>), StatusDone, PriorityHigh, Str(<<"2026">>), 0),
         TaskBody(Title("a"), Str(<<" ">>), Undefined, Undefined, Str(<<>>), 0) }

\* User 1 and a caller with a forged token create tasks as the store's clock
\* advances.
NextCreate ==
  \/ \E h \in {Bearer(TokenA), Bearer(ForgedToken)}, body \in CreateFormInputs :
        CreateTask(h, body)
  \/ TickDb

SpecCreate == InitTasks /\ [][NextCreate]_vars

----------------------------------------------------------------------------
(* PATCH and DELETE /api/tasks/:id by the owner as the store's clock advances *)

PatchCreateInputs ==
  { TaskBody(Title("a"), Undefined, Undefined, Undefined, Str(<<"2025">>), 0) }

\* Bodies of PATCH: no field; title and description with blanks around them;
\* status, priority and an empty due_date; a due_date alone; a status that is
\* no member; a null title.
PatchFormInputs ==
  { NoBody,
    TaskBody(Str(<<" ", "b", " ">>), Str(<<" ", "d">>), Undefined, Undefined, Undefined, 0),
    TaskBody(Undefined, Undefined, StatusDone, PriorityHigh, Str(<<>>), 0),
    TaskBody(Undefined, Undefined, Undefined, Undefined, Str(<<"2026">>), 0),
    TaskBody(Undefined, Undefined, Str(<<"bogus">>), Undefined, Undefined, 0),
    TaskBody(Null, Undefined, Undefined, Undefined, Undefined, 0) }

\* User 1 creates, patches and deletes tasks; user 2 patches them too.
NextPatch ==
  \/ \E body \in PatchCreateInputs : CreateTask(Bearer(TokenA), body)
  \/ \E h \in {Bearer(TokenA), Bearer(TokenB)}, id \in IdInputs, body \in PatchFormInputs :
        PatchTask(h, id, body)
  \/ \E id \in IdInputs : DeleteTask(Bearer(TokenA), id)
  \/ TickDb

SpecPatch == InitTasks /\ [][NextPatch]_vars

----------------------------------------------------------------------------
(* Properties of the tasks router *)

ProtectedOps == {"me", "list", "create", "get", "patch", "delete"}

\* The caller of the last request, as authenticate set req.user.
Caller == last.auth.user.userId

\* The tasks of a list response, as a set.
ListData == {last.res.body.data[i] : i \in 1..Len(last.res.body.data)}

ListAnswered == last.op = "list" /\ last.res.status = 200

\* C1: every task a list returns to an authenticated caller has the caller's id
\* as its user_id, so no list returns a task of another user, whatever the
\* filters and the page.
C1_ListIsolation ==
  ListAnswered => \A task \in ListData : task.user_id = Caller

\* A filtered list answered with a task while the other user owns a task that
\* matches the same filters.
C1_Witness ==
  /\ ListAnswered
  /\ last.req.query.status = StatusDone
  /\ ListData # {}
  /\ \E r \in tasks : r.user_id # Caller /\ r.status = StatusDone /\ r.priority = PriorityHigh

\* A PATCH body that passes the validation of status and priority.
ValidPatchBody(body) ==
  /\ body.status = Undefined \/ body.status \in STATUSES
  /\ body.priority = Undefined \/ body.priority \in PRIORITIES

\* The response to the last request had its path named an id the store never
\* generated.
OnAbsentId ==
  LET id0 == taskSeq + 1 IN
  CASE last.op = "get" -> get(last.auth.user, id0, tasks).res
    [] last.op = "patch" -> patch(last.auth.user, id0, last.req.body, tasks, dbNow).res
    [] last.op = "delete" -> delete(last.auth.user, id0, tasks).res

ByIdOps == {"get", "patch", "delete"}

OnForeignTask == last.op \in ByIdOps /\ last.ran /\ last.req.target = "foreign"

C3_ForeignWriteNoEffect ==
  [][ ( /\ last'.op \in {"patch", "delete"}
        /\ last'.ran
        /\ \E r \in tasks : r.id = last'.req.id /\ r.user_id # last'.auth.user.userId )
      => tasks' = tasks ]_vars

\* A PATCH carrying fields was made on the task of another user, which is
\* still in the table.
C3_Witness ==
  /\ OnForeignTask
  /\ last.op = "patch"
  /\ last.req.body.priority = PriorityHigh
  /\ \E r \in tasks : r.id = last.req.id /\ r.user_id # Caller

\* C4: the user_id of every stored task is the req.user.userId of the POST
\* that created it: it is not taken from the body and no PATCH changes it.
C4_OwnerFromToken ==
  \A r \in tasks : \E c \in created : c.id = r.id /\ c.by = r.user_id

\* A PATCH whose body named another user changed the caller's task, beside a
\* task created by user 1 with a POST whose body named user 2.
C4_Witness ==
  /\ last.op = "patch"
  /\ last.res.status = 200
  /\ last.req.body.user_id \notin {0, Caller}
  /\ \E r \in tasks : r.id = last.req.id /\ r.status = StatusDone /\ r.user_id = Caller
  /\ \E r \in tasks : r.user_id = 1 /\ \A b \in CreateInputs : Truthy(Trim(b.title)) => b.user_id = 2

----------------------------------------------------------------------------
(* Properties of authenticate and of the auth router *)

Protected == last.op \in ProtectedOps

\* The token of a 'Bearer <token>' Authorization header, EmptyToken otherwise.
Presented ==
  IF last.hdr.present /\ last.hdr.scheme = "Bearer " THEN last.hdr.token ELSE EmptyToken

\* The presented token verifies against the configured secret at this instant.
Verifies ==
  /\ Presented.kind # "empty"
  /\ Truthy(jwtSecret)
  /\ JwtVerify(Presented, jwtSecret, now).name = ""

\* C5: a request to a protected route ends authenticate in one of two ways:
\* the token verifies, next() is called once with no response sent and req.user
\* set to the token's payload, and the handler runs; or it does not verify, a
\* 401 or 500 is sent, next() is not called and the handler does not run.
C5_TwoOutcomes ==
  Protected =>
    \/ /\ Verifies
       /\ last.auth.next = 1
       /\ last.auth.res = NoResponse
       /\ last.auth.user = [userId |-> Presented.userId, email |-> Presented.email]
       /\ last.ran
    \/ /\ ~Verifies
       /\ last.auth.next = 0
       /\ last.auth.res.status \in {401, 500}
       /\ last.res = last.auth.res
       /\ ~last.ran

\* The handler of GET /tasks/:id ran for user 2, whose token verified.
C5_Witness ==
  /\ last.op = "get"
  /\ Verifies
  /\ last.ran
  /\ Caller = 2

Rejected == Protected /\ last.auth.next = 0

\* Why the presented token does not pass, from the header, the secret and the
\* clock alone.
Cause ==
  IF Presented.kind = "empty" THEN "NoToken"
  ELSE IF ~Truthy(jwtSecret) THEN "NoSecret"
  ELSE IF Presented.kind # "jwt" \/ Presented.sig # jwtSecret THEN "TokenMalformed"
  ELSE IF Presented.nbf # NoNbf /\ Presented.nbf > now THEN "TokenNotYetValid"
  ELSE IF now >= Presented.exp THEN "TokenExpired"
  ELSE "None"

\* The cause a client reads from a response.
RejectionKind(res) ==
  IF "code" \in DOMAIN res.body
  THEN CASE res.body.code = "TOKEN_EXPIRED" -> "TokenExpired"
         [] res.body.code = "TOKEN_NOT_ACTIVE" -> "TokenNotYetValid"
         [] res.body.code = "TOKEN_INVALID" -> "TokenMalformed"
         [] OTHER -> "Other"
  ELSE IF res.body = ErrorBody("No token provided") THEN "NoToken"
  ELSE "Other"

\* C6 as stated: every rejection by authenticate is a 401 that names one of
\* the four causes.
C6_Original ==
  Rejected =>
    /\ last.res.status = 401
    /\ RejectionKind(last.res) \in {"NoToken", "TokenExpired", "TokenNotYetValid", "TokenMalformed"}

\* C6: a rejection by authenticate is a 401 that names its cause (no token,
\* expired with the expiry timestamp, not yet valid, malformed), except that
\* with no signing secret configured a request carrying a bearer token is
\* rejected with 500 Server misconfiguration.
C6_Amended ==
  Rejected =>
    /\ Cause # "None"
    /\ Cause = "NoSecret" => last.res = Response(500, ErrorBody("Server misconfiguration"))
    /\ Cause # "NoSecret" =>
         /\ last.res.status = 401
         /\ RejectionKind(last.res) = Cause
         /\ Cause = "TokenExpired" => last.res.body.expiredAt = Presented.exp
         /\ Cause = "TokenNotYetValid" => last.res.body.validFrom = Presented.nbf

\* A token issued by login was presented when it had expired.
C6_Witness ==
  /\ Rejected
  /\ Presented \in issued
  /\ Cause = "TokenExpired"
  /\ last.res.body.expiredAt = Presented.exp

\* The email of a login request is not stored, or its password is not the one
\* stored with it.
UnknownEmail == \A u \in users : u.email # Trim(last.req.email)
WrongPassword ==
  \E u \in users : u.email = Trim(last.req.email)
                   /\ u.password_hash # BcryptHash(last.req.password, SALT_ROUNDS)

\* C8: a login with an email that is not registered and a login with a
\* registered email and a wrong password get the same response, 401 Invalid
\* email or password, whether or not a signing secret is configured.
C8_LoginFailuresAlike ==
  ( /\ last.op = "login"
    /\ Truthy(last.req.email)
    /\ Truthy(last.req.password)
    /\ UnknownEmail \/ WrongPassword )
  => last.res = Response(401, ErrorBody("Invalid email or password"))

\* A login with a wrong password for a registered email, with no secret
\* configured.
C8_Witness ==
  /\ last.op = "login"
  /\ Truthy(last.req.password)
  /\ WrongPassword
  /\ ~Truthy(jwtSecret)
  /\ last.res.status = 401

\* C7: with a signing secret configured, a login with an email and password
\* that register accepted is answered 200 with a token that authenticate
\* accepts, setting req.user.userId to the id register returned.
C7_RegisterLoginRoundTrip ==
  Truthy(jwtSecret) =>
    \A r \in registered :
      LET lr == login(Credentials(r.email, r.password, Undefined), users, jwtSecret, now) IN
      /\ lr.status = 200
      /\ LET a == authenticate(Bearer(lr.body.token), jwtSecret, now) IN
         a.next = 1 /\ a.user.userId = r.id

\* An email registered with surrounding blanks: a token issued by login
\* reached the handler of me as the user register returned.
C7_Witness ==
  /\ last.op = "me"
  /\ last.res.status = 200
  /\ Presented \in issued
  /\ \E r \in registered : r.email = EmailAPadded /\ r.id = last.res.body.id /\ r.id = Caller

\* C9: a register whose trimmed email is stored when its INSERT runs (the
\* loser of two concurrent registrations included) is answered 409 Email
\* already registered and adds no row; no two users share an email.
C9_DuplicateEmail ==
  [][ /\ \A u1, u2 \in users' : u1.email = u2.email => u1 = u2
      /\ ( /\ last'.op = "register"
           /\ last'.res.status \notin {0, 400}
           /\ \E u \in users : u.email = Trim(last'.req.email) )
         => /\ last'.res = Response(409, ErrorBody("Email already registered"))
            /\ users' = users
    ]_vars

\* A register that arrived when its email was not stored lost to a concurrent
\* one and was answered 409.
C9_Witness ==
  /\ last.op = "register"
  /\ last.res.status = 409
  /\ last.req.raced
  /\ Cardinality(users) = 1

----------------------------------------------------------------------------
(* Properties of the list: paging *)

\* The integer a query parameter of the list inputs writes.
IntegerSent(v) ==
  CASE v = Digit("0") -> 0
    [] v = Digit("1") -> 1
    [] v = Digit("2") -> 2
    [] v = Digit("3") -> 3
    [] v = Str(<<"-", "1">>) -> 0 - 1
    [] v = Str(<<"-", "5">>) -> 0 - 5
    [] v = Str(<<"1", "0", "0">>) -> 100
    [] v = Str(<<"1", "0", "1">>) -> 101
    [] v = Str(<<"5", "0", "0">>) -> 500

SendsInteger(v) ==
  v \in { Digit("0"), Digit("1"), Digit("2"), Digit("3"), Str(<<"-", "1">>), Str(<<"-", "5">>),
          Str(<<"1", "0", "0">>), Str(<<"1", "0", "1">>), Str(<<"5", "0", "0">>) }

\* min(100, max(1, n))
EffectiveLimit(v) ==
  IF ~SendsInteger(v) THEN 20
  ELSE IF IntegerSent(v) < 1 THEN 1
  ELSE IF IntegerSent(v) > 100 THEN 100
  ELSE IntegerSent(v)

\* max(1, n)
EffectivePage(v) ==
  IF ~SendsInteger(v) THEN 1
  ELSE IF IntegerSent(v) < 1 THEN 1
  ELSE IntegerSent(v)

\* C11: a list that is answered echoes the limit min(100, max(1, limit)) of an
\* integer limit, and 20 when limit is absent or not a number; its page query
\* was given that limit and it returns no more tasks than that.
C11_LimitClamped ==
  ListAnswered =>
    /\ last.res.body.limit = EffectiveLimit(last.req.query.limit)
    /\ last.req.limit = EffectiveLimit(last.req.query.limit)
    /\ Len(last.res.body.data) <= EffectiveLimit(last.req.query.limit)

\* C12: a list that is answered echoes the page max(1, page) of an integer
\* page, and 1 when page is absent or not a number; the offset its page query
\* was given is (that page - 1) times the limit in effect, and is not negative.
C12_PageClamped ==
  ListAnswered =>
    /\ last.res.body.page = EffectivePage(last.req.query.page)
    /\ last.req.offset = (EffectivePage(last.req.query.page) - 1) * last.res.body.limit
    /\ last.req.offset >= 0

\* A list for page -1 was answered as page 1, from offset 0, with a task.
C12_Witness ==
  /\ ListAnswered
  /\ last.req.query.page = Str(<<"-", "1">>)
  /\ last.res.body.page = 1
  /\ last.req.offset = 0
  /\ Len(last.res.body.data) = 1

\* A filter field is supplied when the query carries a value for it.
Supplied(v) == v # Undefined /\ v # Str(<<>>)

\* The caller's tasks that match the filter fields the last list supplied, as
\* the client is shown them.
ListMatching ==
  { rowToTask(r) : r \in { x \in tasks :
      /\ x.user_id = Caller
      /\ (Supplied(last.req.query.status) => x.status = last.req.query.status)
      /\ (Supplied(last.req.query.priority) => x.priority = last.req.query.priority) } }

Newer(e, M) == Cardinality({m \in M : m.created_at > e.created_at})
NotOlder(e, M) == Cardinality({m \in M : m.created_at >= e.created_at})

\* C13: with no write between the two queries of a list, total is the number of
\* the caller's tasks that match the supplied filter fields, whatever page and
\* limit are, and data holds the elements at positions [offset, offset + limit)
\* of the matching tasks in an order of descending created_at: as many elements
\* as that window holds, each a matching task, no task twice, and the element
\* at position offset + i has fewer than offset + i newer tasks before it and at
\* least offset + i tasks that are not older.
C13_ListPageContents ==
  ListAnswered =>
    LET M == ListMatching
        data == last.res.body.data
        o == last.req.offset
        l == last.req.limit
    IN /\ last.res.body.total = Cardinality(M)
       /\ Len(data) = Min(l, Max(0, Cardinality(M) - o))
       /\ \A i \in 1..Len(data) :
            /\ data[i] \in M
            /\ \A j \in 1..Len(data) : i # j => data[i] # data[j]
            /\ Newer(data[i], M) < o + i
            /\ o + i <= NotOlder(data[i], M)

\* Page 2 with limit 1 of a caller with two tasks created at different times:
\* the answer is the older task and total is 2.
C13_Witness ==
  /\ ListAnswered
  /\ last.req.query.page = Digit("2")
  /\ last.req.query.limit = Digit("1")
  /\ last.res.body.total = 2
  /\ Len(last.res.body.data) = 1
  /\ \E r \in tasks : r.user_id = Caller /\ r.created_at > last.res.body.data[1].created_at

\* The page answered just before the last list, when the last list asked for
\* the page after it (same caller, filters and limit, no request between).
PrevPage == last.req.prev
SuccessivePages == ListAnswered /\ PrevPage.answered /\ PrevPage.caller = Caller

Elements(q) == {q[i] : i \in 1..Len(q)}

\* C14: with no write between them, successive pages of a list with the same
\* filter and limit return every matching task exactly once, also when tasks
\* have equal created_at: a page repeats no task of the page before it, and two
\* pages that span all the matching tasks return each of them.
C14_PagesExactlyOnce ==
  SuccessivePages =>
    /\ Elements(last.res.body.data) \cap Elements(PrevPage.data) = {}
    /\ (PrevPage.offset = 0 /\ last.req.offset + last.req.limit >= last.res.body.total
          => Elements(last.res.body.data) \cup Elements(PrevPage.data) = ListMatching)

----------------------------------------------------------------------------
(* Properties of POST /api/tasks *)

\* A string of no characters or of blanks only.
Blank(v) == IsString(v) /\ \A i \in 1..Len(v.chars) : v.chars[i] = " "

\* The step is a POST /api/tasks of an authenticated caller.
CreateStep == last'.op = "create" /\ last'.ran
CreateBody == last'.req.body

NothingPersisted == tasks' = tasks

\* C15: a POST /api/tasks whose title is missing, empty or only whitespace is
\* answered 400 and leaves the task collection as it was.
C15_BlankTitleRejected ==
  [][ CreateStep /\ (CreateBody.title = Undefined \/ Blank(CreateBody.title))
        => last'.res.status = 400 /\ NothingPersisted ]_vars

\* A title of two blanks was refused while the collection held a task.
C15_Witness ==
  /\ last.op = "create" /\ last.ran
  /\ last.req.body.title = Str(<<" ", " ">>)
  /\ last.res = Response(400, ErrorBody("Title is required"))
  /\ tasks # {}

\* A body with a title that is not blank and none of the other task fields.
OnlyTitle(body) ==
  /\ IsString(body.title) /\ ~Blank(body.title)
  /\ body.description = Undefined /\ body.status = Undefined
  /\ body.priority = Undefined /\ body.due_date = Undefined

\* The step persists one new row with the defaults, and its 201 response
\* carries the row's id and timestamps, the defaults, and description as descr.
DefaultsPersistedAndReturned(descr) ==
  /\ last'.res.status = 201
  /\ \E r \in tasks' \ tasks :
       /\ tasks' = tasks \cup {r}
       /\ \A x \in tasks : x.id # r.id
       /\ r.status = Str(<<"todo">>) /\ r.priority = Str(<<"medium">>)
       /\ r.description = Null /\ r.due_date = Null
       /\ r.created_at = dbNow /\ r.updated_at = dbNow
       /\ last'.res.body.id = r.id
       /\ last'.res.body.created_at = r.created_at
       /\ last'.res.body.updated_at = r.updated_at
       /\ last'.res.body.status = Str(<<"todo">>)
       /\ last'.res.body.priority = Str(<<"medium">>)
       /\ last'.res.body.description = descr
       /\ last'.res.body.due_date = Null

\* C16 as stated: the 201 response carries description = null.
C16_Original ==
  [][ CreateStep /\ OnlyTitle(CreateBody) => DefaultsPersistedAndReturned(Null) ]_vars

\* C16: a POST /api/tasks with a valid title and no status, priority,
\* description or due_date persists a row with status todo, priority medium,
\* description null and due_date null, and its 201 response carries that row's
\* generated id and timestamps, status todo, priority medium, due_date null and
\* the description as the empty string.
C16_Amended ==
  [][ CreateStep /\ OnlyTitle(CreateBody) => DefaultsPersistedAndReturned(Str(<<>>)) ]_vars

\* A title with blanks around it and nothing else was answered 201 with status
\* todo, after the store's clock had advanced.
C16_Witness ==
  /\ last.op = "create" /\ last.ran
  /\ last.req.body = TaskBody(Str(<<" ", "a", " ">>), Undefined, Undefined, Undefined, Undefined, 0)
  /\ last.res.status = 201
  /\ last.res.body.status = Str(<<"todo">>)
  /\ last.res.body.created_at = 1
  /\ \E r \in tasks : r.id = last.res.body.id /\ r.description = Null

\* A supplied value that is not exactly a member of its enumeration.
NotExactlyMember(v, enum) == v # Undefined /\ v \notin enum

\* C17 as stated: every supplied status or priority that is not exactly a
\* member, an empty, blank or padded string included, is answered 400 and
\* nothing is persisted.
C17_Original ==
  [][ CreateStep /\ (\/ NotExactlyMember(CreateBody.status, STATUSES)
                     \/ NotExactlyMember(CreateBody.priority, PRIORITIES))
        => last'.res.status = 400 /\ NothingPersisted ]_vars

\* A supplied string that, with the blanks around it removed, is not empty and
\* is no member of the enumeration.
UnknownMember(v, enum) == IsString(v) /\ ~Blank(v) /\ Trim(v) \notin enum

\* The value the row takes for a status or priority that is absent, blank or a
\* member with blanks around it.
Taken(v, default) == IF v = Undefined \/ Blank(v) THEN default ELSE Trim(v)

\* C17: a POST /api/tasks is answered 400 and persists no row for every
\* supplied status or priority string that, after trimming, is not empty and is
\* not a member of its enumeration; an empty or whitespace-only value takes the
\* default and a member with whitespace around it is accepted as that member
\* (201, when the title is valid).
C17_Amended ==
  [][ CreateStep =>
        /\ (\/ UnknownMember(CreateBody.status, STATUSES)
            \/ UnknownMember(CreateBody.priority, PRIORITIES))
             => last'.res.status = 400 /\ NothingPersisted
        /\ (/\ IsString(CreateBody.title) /\ ~Blank(CreateBody.title)
            /\ ~UnknownMember(CreateBody.status, STATUSES)
            /\ ~UnknownMember(CreateBody.priority, PRIORITIES))
             => /\ last'.res.status = 201
                /\ \E r \in tasks' \ tasks :
                     /\ tasks' = tasks \cup {r}
                     /\ r.status = Taken(CreateBody.status, Str(<<"todo">>))
                     /\ r.priority = Taken(CreateBody.priority, Str(<<"medium">>)) ]_vars

\* A status that is no member, with a blank before it, was refused while the
\* collection held a task.
C17_Witness ==
  /\ last.op = "create" /\ last.ran
  /\ last.req.body.status = Str(<<" ", "bogus">>)
  /\ last.res = Response(400, ErrorBody("Invalid status"))
  /\ tasks # {}

----------------------------------------------------------------------------
(* Properties of PATCH /api/tasks/:id *)

TaskFields == {"title", "description", "status", "priority", "due_date"}

\* The step is a PATCH of an authenticated caller that was answered 200.
PatchOk == last'.op = "patch" /\ last'.ran /\ last'.res.status = 200
PatchBody == last'.req.body

\* The row the path of the step names, before and after the step.
RowBefore == CHOOSE r \in tasks : r.id = last'.req.id
RowAfter == CHOOSE r \in tasks' : r.id = last'.req.id
RowStays == (\E r \in tasks : r.id = last'.req.id) /\ (\E r \in tasks' : r.id = last'.req.id)

\* No step changes the user_id or the created_at of a row.
IdentityKept ==
  \A r \in tasks, n \in tasks' :
    r.id = n.id => r.user_id = n.user_id /\ r.created_at = n.created_at

\* C18 as stated: after a PATCH answered 200 every absent field has its old
\* value and every present field has the value the body supplied.
C18_Original ==
  [][ PatchOk =>
        /\ RowStays
        /\ \A f \in TaskFields :
             RowAfter[f] = IF PatchBody[f] = Undefined THEN RowBefore[f] ELSE PatchBody[f]
        /\ IdentityKept ]_vars

\* The value stored for a field the body carries: a title or description
\* string without the whitespace around it, null for an empty due_date, the
\* value as supplied otherwise.
Stored(f, v) ==
  IF f \in {"title", "description"} /\ IsString(v) THEN Trim(v)
  ELSE IF f = "due_date" /\ v = Str(<<>>) THEN Null
  ELSE v

\* C18: after a PATCH answered 200 every task field absent from the body has
\* the value it had before, every field present has the supplied value (a
\* title or description string with its surrounding whitespace removed, an
\* empty due_date as null), and id, user_id and created_at are not changed.
C18_Amended ==
  [][ /\ PatchOk =>
           /\ RowStays
           /\ \A f \in TaskFields :
                RowAfter[f] = IF PatchBody[f] = Undefined THEN RowBefore[f]
                              ELSE Stored(f, PatchBody[f])
      /\ IdentityKept ]_vars

\* A PATCH of title and description with blanks around them was answered 200
\* on a task whose status, priority and due_date an earlier PATCH had set.
C18_Witness ==
  /\ last.op = "patch" /\ last.ran /\ last.res.status = 200
  /\ last.req.body.title = Str(<<" ", "b", " ">>)
  /\ \E r \in tasks :
       /\ r.id = last.req.id
       /\ r.title = Title("b") /\ r.description = Str(<<"d">>)
       /\ r.status = StatusDone /\ r.priority = PriorityHigh /\ r.due_date = Null
       /\ r.created_at < r.updated_at

\* C19 as stated: every PATCH answered 200 leaves updated_at at the time of
\* the request.
C19_Original ==
  [][ PatchOk => RowStays /\ RowAfter.updated_at = dbNow ]_vars

SuppliesAField(body) == \E f \in TaskFields : body[f] # Undefined

\* C19: every PATCH answered 200 whose body supplies at least one task field
\* leaves updated_at at the time of the request; a PATCH answered 200 whose
\* body supplies none checks ownership and returns the current record, and
\* leaves updated_at and the rest of the row as they were.
C19_Amended ==
  [][ PatchOk =>
        /\ RowStays
        /\ RowBefore.user_id = last'.auth.user.userId
        /\ SuppliesAField(PatchBody) => RowAfter.updated_at = dbNow
        /\ ~SuppliesAField(PatchBody) =>
             /\ tasks' = tasks
             /\ last'.res.body.id = RowBefore.id
             /\ last'.res.body.updated_at = RowBefore.updated_at ]_vars

\* A PATCH of a due_date was answered 200 after the store's clock had advanced
\* past the creation of the task.
C19_Witness ==
  /\ last.op = "patch" /\ last.ran /\ last.res.status = 200
  /\ last.req.body.due_date = Str(<<"2026">>)
  /\ last.res.body.created_at = 0
  /\ last.res.body.updated_at = 1
  /\ \E r \in tasks : r.id = last.req.id /\ r.updated_at = 1

\* The step is a PATCH by the user who created the task its path names, with a
\* body that passes the validation and that the table's constraints accept.
OwnerPatch ==
  /\ last'.op = "patch" /\ last'.ran
  /\ \E c \in created : c.id = last'.req.id /\ c.by = last'.auth.user.userId
  /\ ValidPatchBody(PatchBody)
  /\ PatchBody.title # Null

OtherRows(ts, id) == {r \in ts : r.id # id}

----------------------------------------------------------------------------
(* Titles through POST /api/tasks and PATCH /api/tasks/:id *)

\* Bodies of PATCH that carry a title: empty, blank, with blanks around it,
\* null; and a body with no field.
TitlePatchInputs ==
  { TaskBody(ti, Undefined, Undefined, Undefined, Undefined, 0) :
      ti \in {Str(<<>>), Str(<<" ">>), Str(<<" ", "b", " ">>), Null} }
  \cup { NoBody }

\* User 1 creates tasks with every shape of title and patches their titles.
NextTitle ==
  \/ \E ti \in TitleInputs :
        CreateTask(Bearer(TokenA), TaskBody(ti, Undefined, Undefined, Undefined, Undefined, 0))
  \/ \E id \in IdInputs, body \in TitlePatchInputs : PatchTask(Bearer(TokenA), id, body)

SpecTitle == InitTasks /\ [][NextTitle]_vars

\* C21: in every state reached by POST /api/tasks and PATCH /api/tasks/:id
\* requests, the title of every stored task is a string that is not empty and
\* not only whitespace.
C21_TitleNonEmpty ==
  \A r \in tasks : IsString(r.title) /\ ~Blank(r.title)

----------------------------------------------------------------------------
(* Requests that fail: validation, authentication and store errors *)

\* An email one character wider than its column.
EmailTooLong == Str([i \in 1..(EmailWidth + 1) |-> "x"])

FailRegisterInputs ==
  { Credentials(Undefined, PasswordP, Undefined),
    Credentials(EmailC, PasswordP, Undefined),
    Credentials(EmailTooLong, PasswordP, Undefined) }

FailLoginInputs ==
  { Credentials(EmailA, Undefined, Undefined),
    Credentials(EmailA, PasswordP, Undefined),
    Credentials(EmailA, PasswordQ, Undefined) }

FailHeaderInputs == { Bearer(TokenA), Bearer(ForgedToken), Bearer(GarbageToken), NoHeader }

\* The ids of a path: one that is no uuid, the ids the store has generated and
\* one it has not.
FailIdInputs == {NotAUuid} \cup IdInputs

FailCreateInputs ==
  { TaskBody(Title("a"), Undefined, Undefined, Undefined, Undefined, 0),
    TaskBody(Str(<<" ">>), Undefined, Undefined, Undefined, Undefined, 0),
    TaskBody(Title("a"), Undefined, Str(<<"bogus">>), Undefined, Undefined, 0),
    TaskBody(Title("a"), Undefined, Undefined, Str(<<"bogus">>), Undefined, 0) }

FailPatchInputs ==
  { NoBody,
    TaskBody(Undefined, Undefined, Str(<<"bogus">>), Undefined, Undefined, 0),
    TaskBody(Undefined, Undefined, Undefined, Str(<<"bogus">>), Undefined, 0),
    TaskBody(Null, Undefined, Undefined, Undefined, Undefined, 0) }

FailListInputs ==
  { NoQuery,
    ListQuery(Str(<<"bogus">>), Undefined, Undefined, Undefined),
    ListQuery(Undefined, Str(<<"bogus">>), Undefined, Undefined) }

\* Both routers, with requests that are refused by the validation, by
\* authenticate and by the store, next to requests that succeed.
NextFailures ==
  \/ \E body \in FailRegisterInputs : RegisterBegin(body)
  \/ \E s \in 1..MaxPending : RegisterInsert(s)
  \/ \E body \in FailLoginInputs : Login(body)
  \/ \E q \in FailListInputs : ListCount(Bearer(TokenA), q)
  \/ ListPage
  \/ \E body \in FailCreateInputs : CreateTask(Bearer(TokenA), body)
  \/ \E h \in FailHeaderInputs, id \in FailIdInputs : GetTask(h, id)
  \/ \E id \in FailIdInputs, body \in FailPatchInputs : PatchTask(Bearer(TokenA), id, body)
  \/ \E id \in FailIdInputs : DeleteTask(Bearer(TokenA), id)

SpecFailures == InitTasks /\ [][NextFailures]_vars

----------------------------------------------------------------------------
(* Properties of the responses to requests that fail *)

\* The texts of the errors the store and jsonwebtoken raise.
InternalErrorTexts ==
  { "invalid input syntax for type uuid",
    "null value in column title violates not-null constraint",
    "violates check constraint tasks_status_check",
    "violates check constraint tasks_priority_check",
    "violates foreign key constraint tasks_user_id_fkey",
    "value too long for type character varying(255)",
    "jwt malformed", "invalid signature", "jwt not active", "jwt expired" }

\* The texts a response body carries in its error and message fields.
ResponseTexts(res) ==
  { res.body[f] : f \in {"error", "message"} \cap DOMAIN res.body }

\* C22: no response carries internal error text: a failure that is not a
\* validation, conflict, authentication or not-found case is answered 500 with
\* a generic message, and the 401 of a token that does not verify carries its
\* code and fixed message, not the text of the exception.
C22_NoInternalText ==
  ResponseTexts(last.res) \cap InternalErrorTexts = {}

\* C24: for an authenticated caller and every id in the path, an id that is
\* no uuid included, GET and DELETE /api/tasks/:id answer 200 / 204 when the
\* caller owns a task with that id and the 404 of NotFound otherwise.
C24_GetDeleteFoundOrNot ==
  (last.op \in {"get", "delete"} /\ last.ran) =>
     IF last.req.target = "own"
     THEN last.res.status = (IF last.op = "get" THEN 200 ELSE 204)
     ELSE last.res = NotFound

----------------------------------------------------------------------------
(* Token lifetime *)

\* A protected request presents, as a Bearer token, a token that login issued.
PresentsIssued ==
  /\ Protected
  /\ last.hdr.present /\ last.hdr.scheme = "Bearer "
  /\ last.hdr.token \in issued

\* The request passed authenticate as the user the token names.
AcceptedAsIssued ==
  /\ last.auth.next = 1
  /\ last.auth.res = NoResponse
  /\ last.auth.user = [userId |-> last.hdr.token.userId, email |-> last.hdr.token.email]
  /\ last.ran

\* The request was answered 401 TokenExpired with the token's expiry time.
RejectedExpired ==
  /\ last.auth.next = 0
  /\ ~last.ran
  /\ last.res = Response(401, [error |-> "Token expired",
                               expiredAt |-> last.hdr.token.iat + TokenTTL,
                               code |-> "TOKEN_EXPIRED"])

\* C23 as stated: a token issued by login at time t is accepted at every time
\* up to and including t + 7 days and rejected with TokenExpired at every
\* time after t + 7 days.
C23_Original ==
  PresentsIssued =>
    IF now <= last.hdr.token.iat + TokenTTL THEN AcceptedAsIssued ELSE RejectedExpired

\* C23: a token issued by login at time t is accepted at every time before
\* t + 7 days and rejected with TokenExpired (401, carrying the expiry
\* timestamp) at every time from t + 7 days on; the outcome is a function of
\* the token, the secret and the current time alone.
C23_Amended ==
  PresentsIssued =>
    IF now < last.hdr.token.iat + TokenTTL THEN AcceptedAsIssued ELSE RejectedExpired

\* A token issued by login is presented exactly 7 days after it was issued
\* and is rejected as expired.
C23_Witness ==
  /\ PresentsIssued
  /\ now = last.hdr.token.iat + TokenTTL
  /\ RejectedExpired

\* A token issued by login is presented less than 7 days after it was issued
\* and is accepted.
C23_WitnessAccepted ==
  /\ PresentsIssued
  /\ now < last.hdr.token.iat + TokenTTL
  /\ now > last.hdr.token.iat
  /\ AcceptedAsIssued

----------------------------------------------------------------------------
(* Validation comes first *)

\* The request read alone, without the store: it lacks an email or a password
\* (register, login), names a status or priority outside the enumeration
\* (list, create, update) or has a blank title (create).
FailsValidation(l) ==
  CASE l.op \in {"register", "login"} ->
         ~Truthy(l.req.email) \/ ~Truthy(l.req.password)
    [] l.op = "list" ->
         /\ l.ran
         /\ \/ Supplied(l.req.query.status) /\ l.req.query.status \notin STATUSES
            \/ Supplied(l.req.query.priority) /\ l.req.query.priority \notin PRIORITIES
    [] l.op = "create" ->
         /\ l.ran
         /\ \/ ~IsString(l.req.body.title) \/ Blank(l.req.body.title)
            \/ UnknownMember(l.req.body.status, STATUSES)
            \/ UnknownMember(l.req.body.priority, PRIORITIES)
    [] l.op = "patch" -> l.ran /\ ~ValidPatchBody(l.req.body)
    [] OTHER -> FALSE

\* No query of the request reached the store: both tables are as they were, no
\* registration went on to its INSERT and no list to its count query.
NoStoreStep ==
  /\ users' = users /\ tasks' = tasks /\ taskSeq' = taskSeq
  /\ pending' = pending /\ listReq' = listReq

\* C25: a request is answered 400 exactly when it fails the validation of its
\* handler, which reads the request alone: the 400 is sent whatever the store
\* holds and whatever a query of the request would have met there (an id that
\* is no uuid, an id of no task, an email that is taken or too long), and the
\* step leaves users and tasks unchanged.
C25_ValidationBeforeStore ==
  [][ /\ last'.res.status = 400 <=> FailsValidation(last')
      /\ last'.res.status = 400 => NoStoreStep ]_vars

\* A PATCH with an unknown status on a path whose id is no uuid was answered
\* 400, not the 500 a query with that id ends in.
C25_Witness ==
  /\ last.op = "patch" /\ last.ran
  /\ last.req.id = NotAUuid
  /\ last.req.body.status = Str(<<"bogus">>)
  /\ last.res = Response(400, ErrorBody("Invalid status"))
  /\ tasks # {}

----------------------------------------------------------------------------
(* One response per request *)

RequestOps == {"register", "login", "me", "list", "create", "get", "patch", "delete"}

\* The step is the first half of a request that awaits: a registration went on
\* to hash its password, or a list ran its count query.
Begins ==
  \/ \E s \in 1..MaxPending : ~pending[s].busy /\ pending'[s].busy
  \/ ~listReq.busy /\ listReq'.busy

\* The step ends a request.
Completes == last'.op \in RequestOps /\ ~Begins

\* The step ends a registration that awaited its INSERT.
CompletesRegister == \E s \in 1..MaxPending : pending[s].busy /\ ~pending'[s].busy

\* The responses sent for the request the step ends: authenticate's, and the
\* one of the handler or of the error handler behind it.
ResponsesSent ==
  (IF last'.auth.res # NoResponse THEN 1 ELSE 0)
    + (IF last'.ran /\ last'.res # NoResponse THEN 1 ELSE 0)

\* The statement of the request the step ends is refused by the store, for a
\* reason other than the unique email: an id that is no uuid, a null title for
\* a row of the caller, an email wider than its column.
StoreRefuses ==
  \/ /\ last'.op \in {"get", "delete"} /\ last'.ran
     /\ last'.req.id = NotAUuid
  \/ /\ last'.op = "patch" /\ last'.ran /\ ValidPatchBody(last'.req.body)
     /\ \/ last'.req.id = NotAUuid
        \/ last'.req.target = "own" /\ last'.req.body.title = Null
  \/ /\ CompletesRegister
     /\ Len(Trim(last'.req.email).chars) > EmailWidth

\* The requests in flight other than the one the step ends are as they were.
OthersInFlightKept ==
  /\ \A s \in 1..MaxPending : pending'[s].busy => pending'[s] = pending[s]
  /\ \A s \in 1..MaxPending :
        pending[s].busy /\ ~pending'[s].busy =>
          \A o \in 1..MaxPending \ {s} : pending'[o] = pending[o]
  /\ ~CompletesRegister => pending' = pending
  /\ last'.op # "list" => listReq' = listReq

\* C26: a request whose store call fails with anything other than the
\* unique-email conflict is answered once, with a 500; the statement is not run
\* again (the request is over, both tables are as they were) and the requests
\* in flight next to it are untouched.  Every request, failing or not, is
\* answered exactly once, at the step that ends it and not before.
C26_OneResponse ==
  [][ /\ Completes => ResponsesSent = 1
      /\ Begins => last'.res = NoResponse /\ last'.auth.res = NoResponse
      /\ Completes /\ StoreRefuses =>
           /\ last'.res.status = 500
           /\ users' = users /\ tasks' = tasks
           /\ OthersInFlightKept ]_vars

\* The INSERT of a registration was refused for its email's width and answered
\* 500 while another registration and a list were in flight.
C26_Witness ==
  /\ last.op = "register" /\ last.res.status = 500
  /\ \E s \in 1..MaxPending : pending[s].busy
  /\ listReq.busy

\* A GET by an id that is no uuid was answered 500 while a list was in flight.
C26_WitnessGet ==
  /\ last.op = "get" /\ last.ran /\ last.req.id = NotAUuid
  /\ last.res.status = 500
  /\ listReq.busy

----------------------------------------------------------------------------
(* A list between its two queries while its owner creates and deletes *)

RaceListInputs ==
  { NoQuery,
    ListQuery(Undefined, Undefined, Undefined, Digit("1")),
    ListQuery(Undefined, Undefined, Digit("2"), Digit("1")) }

\* User 1 lists, creates and deletes, a create or delete also between the count
\* query and the page query of a list; user 2 creates.
NextRace ==
  \/ \E q \in RaceListInputs : ListCount(Bearer(TokenA), q)
  \/ ListPage
  \/ \E h \in {Bearer(TokenA), Bearer(TokenB)} :
        CreateTask(h, TaskBody(Title("a"), Undefined, Undefined, Undefined, Undefined, 0))
  \/ \E id \in IdInputs : DeleteTask(Bearer(TokenA), id)

SpecRace == InitTasks /\ [][NextRace]_vars

\* The data of an answered list respects its total: no more rows than the
\* total leaves after the offset.
WithinTotal(l) ==
  Len(l.res.body.data) <= Max(0, l.res.body.total - l.req.offset)

\* C27 as stated: every answered list has length(data) <= max(0, total - offset),
\* whatever creates and deletes of its owner ran between its two queries.
C27_Original == ListAnswered => WithinTotal(last)

\* The step is the page query of the list in flight.
PageStep == listReq.busy /\ ~listReq'.busy

\* A create of the list's owner ran after the count query of the list in flight.
CreatedSinceCount ==
  \E c \in created : c.by = listReq.auth.user.userId /\ c.id > listReq.seq

\* C27: a list is answered with length(data) <= max(0, total - offset) under
\* any interleaving of its owner's deletes with its count query and page query
\* and of its owner's creates that do not fall between the two queries.
C27_Amended ==
  [][ PageStep /\ ~CreatedSinceCount => WithinTotal(last') ]_vars

\* A list was answered with a total of 1 and no row on its first page: its
\* owner's delete ran between the count query and the page query.
C27_Witness ==
  /\ ListAnswered
  /\ last.req.offset = 0
  /\ last.res.body.total = 1
  /\ last.res.body.data = <<>>
  /\ deleted # {}

----------------------------------------------------------------------------
(* The frontend: AuthProvider from its construction on *)

ClientUserIds == {1, 2}

\* AuthProvider is constructed with user null and isLoading true; localStorage
\* holds no token or one of user 1 from an earlier visit.
InitFrontend ==
  /\ jwtSecret = ServerSecret
  /\ now = 0
  /\ users = TwoUsers
  /\ pending = [s \in 1..MaxPending |-> NoPending]
  /\ issued = {}
  /\ registered = {}
  /\ tasks = {}
  /\ taskSeq = 0
  /\ dbNow = 0
  /\ listReq = NoList
  /\ created = {}
  /\ deleted = {}
  /\ last = Last("init", NoReq, NoHeader, Unauth, FALSE, NoResponse)
  /\ localStorage \in {[k \in {TOKEN_KEY} |-> Null], [k \in {TOKEN_KEY} |-> ClientToken(1, 0)]}
  /\ provider = [user |-> Null, isLoading |-> TRUE, mounted |-> FALSE]
  /\ calls = [c \in 1..MaxCalls |-> NoCall]
  /\ frontHist = [serial |-> 0, loggedIn |-> FALSE]

\* The callbacks of AuthProvider, called in any order, and the responses of
\* the api to the calls in flight, arriving in any order.
NextFrontend ==
  \/ Mount
  \/ \E c \in 1..MaxCalls : MeResolve(c)
  \/ \E c \in 1..MaxCalls : MeReject(c)
  \/ \E u \in ClientUserIds : LoginStart(u)
  \/ \E c \in 1..MaxCalls : LoginResolve(c)
  \/ \E c \in 1..MaxCalls : LoginReject(c)
  \/ \E u \in ClientUserIds : RegisterStart(u)
  \/ \E c \in 1..MaxCalls : RegisterResolve(c)
  \/ \E c \in 1..MaxCalls : RegisterReject(c)
  \/ Logout

SpecFrontend == InitFrontend /\ [][NextFrontend]_vars

\* C28: whenever user is not null (isAuthenticated), localStorage holds a token.
C28_UserImpliesToken == useAuth.isAuthenticated => getToken # Null

\* C29: from the completion of login() until logout() is called, localStorage
\* holds a token and user is not null, whatever call of loadUser completes.
C29_LoginStays == frontHist.loggedIn => getToken # Null /\ provider.user # Null

\* AuthProvider with its effect run after the first render and every me()
\* request settled in the end, one way or the other.
FrontendFairness ==
  /\ WF_vars(Mount)
  /\ \A c \in 1..MaxCalls : WF_vars(MeResolve(c) \/ MeReject(c))

SpecFrontendFair == InitFrontend /\ [][NextFrontend]_vars /\ FrontendFairness

\* C30: after AuthProvider mounts, isLoading becomes false in the end and,
\* once false, is never true again, whether no token was stored or the me()
\* request resolved or rejected; and ProtectedRoute renders its children only
\* when isLoading is false and isAuthenticated is true.
C30_LoadingEnds ==
  /\ <>[](~provider.isLoading)
  /\ [][~provider.isLoading => ~provider.isLoading']_vars
  /\ [](ProtectedRoute(useAuth) = "children"
          => ~useAuth.isLoading /\ useAuth.isAuthenticated)

\* The mount is over with no token left (none was stored, or the me() request
\* rejected): isLoading is false, no user is set and the route sends the
\* visitor to the login page.
C30_Witness ==
  /\ provider.mounted
  /\ ~provider.isLoading
  /\ frontHist.serial = 0
  /\ getToken = Null
  /\ \A c \in 1..MaxCalls : calls[c].at # "me"
  /\ ProtectedRoute(useAuth) = "navigate"

\* The route renders its children: isLoading is false and a user is set.
C30_WitnessChildren ==
  /\ ProtectedRoute(useAuth) = "children"
  /\ ~provider.isLoading
  /\ provider.user # Null

====
